---- MODULE Spec2Model ----
(***************************************************************************)
(* A model of ebnf-toolkit: the span model, the lexer, the expression      *)
(* model, the shift/reduce engine with its pattern table, the simplifier   *)
(* and the Rule / Grammar entry points.                                    *)
(*                                                                         *)
(* Text is a sequence of one-character strings.  An Expr is a record with  *)
(* the same six fields for every variant:                                  *)
(*   kind        the variant name (ExprKind)                               *)
(*   span        the Span                                                  *)
(*   str         Literal.str / Nonterminal.name / Regex.pattern /          *)
(*               Rule.name, as text; <<>> otherwise                        *)
(*   body        the children of a compound node or of a Rule              *)
(*   one_needed  Repetition.one_needed; FALSE otherwise                    *)
(*   op          the Operator of an UnparsedOperator; "" otherwise         *)
(***************************************************************************)
EXTENDS Integers, Sequences, FiniteSets, TLC

VARIABLES
    pc,                     \* which operation the run is in
    shifted,                \* the tokens handed to the driver so far
    stack,                  \* LrStack: token_stack and token_pattern
    outputs,                \* parse_rules_from_tokens: the rules emitted so far
    end_of_rule_expected,   \* parse_rules_from_tokens: Some(n) as <<n>>, None as <<>>
    n,                      \* parse_rules_from_tokens: the loop counter
    result,                 \* what the call returned
    debug_assertions,       \* the build profile: are debug_assert!s compiled in
    expr,                   \* the tree handed to simplify_node
    simplified,             \* simplify_node's result
    reparsed,               \* the result of parsing a Display text again
    grammar,                \* Grammar.rules: a set of Rule records, one per key
    dangling,               \* first_dangling_reference's result
    source_text,              \* the text handed to Grammar::new
    spans,                  \* the operands of Span::union
    unions,                 \* the results of Span::union on them
    names,                  \* Rule::nonterminals' result
    lexer_output,           \* tokenize's result on source_text
    padded,                 \* source_text with skipped text put between two tokens
    padded_output,          \* tokenize's result on padded
    report                  \* Display of the error: the labels attached, or a panic

vars == <<pc, shifted, stack, outputs, end_of_rule_expected, n, result,
          debug_assertions, expr, simplified, reparsed, grammar, dangling, source_text,
          spans, unions, names, lexer_output, padded, padded_output, report>>

----------------------------------------------------------------------------
(* Bounds of the model *)

MaxTokens == 5
MaxWraps == 3
MaxDefs == 3
MaxOffset == 2
MaxChars == 4
MaxStack == 2

\* The most notations put around one operand.
MaxRepeats == 2
MaxChildren == 3
MaxAlternatives == 6
MaxDepth == 4
MaxReductions == 2
MaxInput == 4
\* The width usize arithmetic is modelled at.  The code's usize is wider; no
\* index of the model comes near either limit.
MaxUsizeBits == 29

----------------------------------------------------------------------------
(* Span *)

Span(start, end, los, loe) ==
    [start |-> start, end |-> end, line_offset_start |-> los, line_offset_end |-> loe]

\* DUMMY_SPAN, with 65535 standing for usize::MAX and for u32::MAX.
DUMMY_SPAN == Span(65535 - 1, 65535, <<65535 - 1, 0>>, <<65535 - 1, 2>>)

\* The closure Span::union reduces with.
union2(s, t) ==
    LET min == IF s.start < t.start THEN s ELSE t
        max == IF s.end > t.end THEN s ELSE t
    IN Span(min.start, max.end, min.line_offset_start, max.line_offset_end)

RECURSIVE reduce_union(_, _)
reduce_union(acc, ss) ==
    IF ss = <<>> THEN acc ELSE reduce_union(union2(acc, Head(ss)), Tail(ss))

\* Span::union over the spans of a non-empty list of nodes.  The empty list
\* panics ("Asked for span of empty list"); callers test HasEmptyBody first.
Span_union(nodes) ==
    reduce_union(nodes[1].span, [i \in 1..(Len(nodes) - 1) |-> nodes[i + 1].span])

----------------------------------------------------------------------------
(* Expr *)

Node(kind, span, str, body, one_needed, op) ==
    [kind |-> kind, span |-> span, str |-> str, body |-> body,
     one_needed |-> one_needed, op |-> op]

Literal(span, str) == Node("Literal", span, str, <<>>, FALSE, "")
Nonterminal(span, name) == Node("Nonterminal", span, name, <<>>, FALSE, "")
Regex(span, pattern) == Node("Regex", span, pattern, <<>>, FALSE, "")
Choice(span, body) == Node("Choice", span, <<>>, body, FALSE, "")
Optional(span, body) == Node("Optional", span, <<>>, body, FALSE, "")
Repetition(span, body, one_needed) == Node("Repetition", span, <<>>, body, one_needed, "")
Group(span, body) == Node("Group", span, <<>>, body, FALSE, "")
UnparsedOperator(span, op) == Node("UnparsedOperator", span, <<>>, <<>>, FALSE, op)
RuleNode(span, name, body) == Node("Rule", span, name, body, FALSE, "")

\* Option::None of a replacement function.
None == Node("None", DUMMY_SPAN, <<>>, <<>>, FALSE, "")

CompoundKinds == {"Choice", "Optional", "Repetition", "Group"}

\* The variants apply_replacement descends into.
HasBody(e) == e.kind \in CompoundKinds \cup {"Rule"}

\* The strum "repr" property of Operator.
OperatorRepr ==
    [OpenedGroup |-> "(", ClosedGroup |-> ")", OpenedSquare |-> "[", ClosedSquare |-> "]",
     OpenedBrace |-> "{", ClosedBrace |-> "}", Terminator |-> ";", Equals |-> "=",
     Alternation |-> "|", Kleene |-> "*", Optional |-> "?", Repeat |-> "+"]

\* The first character of each ExprKind name (&name[..1]).
FirstLetter ==
    [Literal |-> "L", Nonterminal |-> "N", Choice |-> "C", Optional |-> "O",
     Repetition |-> "R", Regex |-> "R", Group |-> "G", UnparsedOperator |-> "U",
     Rule |-> "R"]

node_pattern_code(e) ==
    IF e.kind = "UnparsedOperator" THEN OperatorRepr[e.op] ELSE FirstLetter[e.kind]

RECURSIVE HasEmptyBody(_)
\* Some compound node of the tree has no children: Span::union panics on it.
HasEmptyBody(e) ==
    /\ HasBody(e)
    /\ \/ e.body = <<>>
       \/ \E i \in 1..Len(e.body) : HasEmptyBody(e.body[i])

RECURSIVE StripSpans(_)
\* The tree with every span forgotten: equality "ignoring source spans".
StripSpans(e) ==
    [e EXCEPT !.span = DUMMY_SPAN,
              !.body = [i \in 1..Len(e.body) |-> StripSpans(e.body[i])]]

----------------------------------------------------------------------------
(* Simplifier *)

RECURSIVE concat(_)
concat(seqs) == IF seqs = <<>> THEN <<>> ELSE Head(seqs) \o concat(Tail(seqs))

\* A mutant of flatten_groups: an Optional or Repetition keeps its only Group.
flatten_groups_keeps_inner(e) ==
    IF e.kind = "Group" /\ Len(e.body) = 1 THEN e.body[1] ELSE None

flatten_groups(e) ==
    CASE e.kind = "Group" /\ Len(e.body) = 1 -> e.body[1]
      [] e.kind = "Optional" /\ Len(e.body) = 1 ->
            IF e.body[1].kind = "Group"
            THEN Optional(Span_union(e.body[1].body), e.body[1].body)
            ELSE None
      [] e.kind = "Repetition" /\ Len(e.body) = 1 ->
            IF e.body[1].kind = "Group"
            THEN Repetition(Span_union(e.body[1].body), e.body[1].body, e.one_needed)
            ELSE None
      [] OTHER -> None

flatten_choices(e) ==
    IF /\ e.kind = "Choice"
       /\ \E i \in 1..Len(e.body) : e.body[i].kind = "Choice"
    THEN LET outputs_ == concat([i \in 1..Len(e.body) |->
                                    IF e.body[i].kind = "Choice"
                                    THEN e.body[i].body
                                    ELSE <<e.body[i]>>])
         IN Choice(Span_union(outputs_), outputs_)
    ELSE None

\* The two replacement functions simplify_node passes, by name.
func_call(func, e) ==
    IF func = "flatten_groups" THEN flatten_groups(e) ELSE flatten_choices(e)

\* if let Some(new) = func(n) { *n = new; }
replace_if_some(func, e) ==
    LET assign(res) == IF res = None THEN e ELSE res
    IN assign(func_call(func, e))

RECURSIVE apply_replacement(_, _)
RECURSIVE apply_to_children(_, _)

\* for child in body.iter_mut(): func on the child, then the child's own
\* apply_replacement.
apply_to_children(body, func) ==
    IF body = <<>> THEN <<>>
    ELSE <<apply_replacement(replace_if_some(func, Head(body)), func)>>
         \o apply_to_children(Tail(body), func)

\* A mutant of apply_replacement: the span of a node is not recomputed.
apply_replacement_keeps_span(e, func) ==
    replace_if_some(func,
        IF HasBody(e) THEN [e EXCEPT !.body = apply_to_children(e.body, func)] ELSE e)

apply_replacement(e, func) ==
    LET assign(body) == [e EXCEPT !.body = body, !.span = Span_union(body)]
    IN replace_if_some(func,
           IF HasBody(e) THEN assign(apply_to_children(e.body, func)) ELSE e)

\* A mutant of simplify_node: the choice rewrite runs before the group rewrite.
simplify_node_choices_first(e) ==
    apply_replacement(apply_replacement(e, "flatten_choices"), "flatten_groups")

simplify_node(e) ==
    apply_replacement(apply_replacement(e, "flatten_groups"), "flatten_choices")

----------------------------------------------------------------------------
(* Tokens *)

Token(kind, str, span) == [kind |-> kind, str |-> str, span |-> span]

----------------------------------------------------------------------------
(* Shift/reduce engine *)

\* One element of a decoded pattern: a literal shape code, or a negated
\* one-character class.
Lit(c) == [neg |-> FALSE, ch |-> c]
NotChar(c) == [neg |-> TRUE, ch |-> c]

\* ANY_PATTERN = "[^U]"
ANY_PATTERN == NotChar("U")

\* PATTERNS, each written as the pieces of its text: `pre`, then `rep` one or
\* more times (when `rep` is not empty), then `suf`.
PATTERNS ==
    << [pre |-> <<"Any">>, rep |-> <<"|", "Any">>, suf |-> <<>>, reducer |-> "choice"],
       [pre |-> <<"[">>, rep |-> <<"Any">>, suf |-> <<"]">>, reducer |-> "option"],
       [pre |-> <<"Any", "?">>, rep |-> <<>>, suf |-> <<>>, reducer |-> "option"],
       [pre |-> <<"Any", "*">>, rep |-> <<>>, suf |-> <<>>, reducer |-> "repeat"],
       [pre |-> <<"Any", "+">>, rep |-> <<>>, suf |-> <<>>, reducer |-> "repeat"],
       [pre |-> <<"(">>, rep |-> <<"Any">>, suf |-> <<")">>, reducer |-> "list"],
       [pre |-> <<"Nonterminal", "=">>, rep |-> <<"Any">>, suf |-> <<";">>, reducer |-> "rule"] >>

\* decode_rule_regex on one piece: a variant name becomes its first letter,
\* "Any" becomes ANY_PATTERN, an escaped character stands for itself.
decode_piece(piece) ==
    IF piece = "Any" THEN ANY_PATTERN
    ELSE IF piece \in DOMAIN FirstLetter THEN Lit(FirstLetter[piece])
    ELSE Lit(piece)

\* decode_rule_regex: the pieces decoded; the pushed '$' is the anchoring at
\* the end of the shape that match_at implements.
decode_rule_regex(pat) ==
    [pre |-> [i \in 1..Len(pat.pre) |-> decode_piece(pat.pre[i])],
     rep |-> [i \in 1..Len(pat.rep) |-> decode_piece(pat.rep[i])],
     suf |-> [i \in 1..Len(pat.suf) |-> decode_piece(pat.suf[i])]]

piece_matches(a, c) == IF a.neg THEN c # a.ch ELSE c = a.ch

\* The regex r matches the shape from position i (1-based) to its end.
match_at(r, shape, i) ==
    LET len == Len(shape) - i + 1
        fixed == Len(r.pre) + Len(r.suf)
        piece(j) == IF j <= Len(r.pre) THEN r.pre[j]
                    ELSE IF j > len - Len(r.suf) THEN r.suf[j - (len - Len(r.suf))]
                    ELSE r.rep[((j - Len(r.pre) - 1) % Len(r.rep)) + 1]
    IN /\ IF r.rep = <<>> THEN len = fixed
          ELSE /\ len >= fixed + Len(r.rep)
               /\ (len - fixed) % Len(r.rep) = 0
       /\ \A j \in 1..len : piece_matches(piece(j), shape[i + j - 1])

\* LrStack::match_rule: Regex::find gives the leftmost match; the result is the
\* 1-based position where the matched range starts, 0 for None.
match_rule(s, r) ==
    LET leftmost(starts) ==
            IF starts = {} THEN 0 ELSE CHOOSE i \in starts : \A j \in starts : i <= j
    IN leftmost({i \in 1..Len(s.token_pattern) : match_at(r, s.token_pattern, i)})

\* LrStack::new, with the model's record of a panic raised while reducing.
LrStack_new == [token_stack |-> <<>>, token_pattern |-> <<>>, panicked |-> FALSE]

push_node(s, e) ==
    [s EXCEPT !.token_pattern = Append(@, node_pattern_code(e)),
              !.token_stack = Append(@, e)]

\* The operator each src arm of push_token gives a token.
TokenOperator ==
    [Alternation |-> "Alternation", OpeningSquare |-> "OpenedSquare",
     ClosingSquare |-> "ClosedSquare", Equals |-> "Equals", Termination |-> "Terminator",
     Kleene |-> "Kleene", OpeningGroup |-> "OpenedGroup", ClosingGroup |-> "ClosedGroup",
     Optional |-> "Optional", Repeat |-> "Repeat"]

\* The brace tokens, which the arms of push_token do not list: each becomes
\* the UnparsedOperator of its own identity.
BraceOperator == [OpeningBrace |-> "OpenedBrace", ClosingBrace |-> "ClosedBrace"]

push_token(s, t) ==
    push_node(s,
        CASE t.kind \in DOMAIN TokenOperator -> UnparsedOperator(t.span, TokenOperator[t.kind])
          [] t.kind \in DOMAIN BraceOperator -> UnparsedOperator(t.span, BraceOperator[t.kind])
          [] t.kind = "String" -> Literal(t.span, t.str)
          [] t.kind = "Identifier" -> Nonterminal(t.span, t.str)
          [] t.kind = "Regex" -> Regex(t.span, t.str))

\* A mutant of pop_node: the node is popped and the shape keeps its character.
pop_node_keeps_pattern(s) ==
    [s EXCEPT !.token_stack = SubSeq(@, 1, Len(@) - 1)]

pop_node(s) ==
    [s EXCEPT !.token_pattern = SubSeq(@, 1, Len(@) - 1),
              !.token_stack = SubSeq(@, 1, Len(@) - 1)]

RECURSIVE drop_many(_, _)
drop_many(s, k) == IF k = 0 \/ s.token_stack = <<>> THEN s ELSE drop_many(pop_node(s), k - 1)

\* rules::filter_parsed: the nodes that are not operators, the union of the
\* spans of all the nodes, and how many nodes there were.
filter_parsed(nodes) ==
    LET NotOperator(e) == e.kind # "UnparsedOperator"
    IN [new_nodes |-> SelectSeq(nodes, NotOperator),
        span |-> Span_union(nodes),
        size |-> Len(nodes)]

\* one_needed of the Repetition a repeat reduction builds, by the operator
\* that ends the matched nodes.
one_needed_of(op) == op \in {"Repeat", "ClosedBrace"}

\* rules::rule: [name, _equals, body @ .., _term]
rule_reducer(nodes) ==
    RuleNode(Span_union(nodes), nodes[1].str, SubSeq(nodes, 3, Len(nodes) - 1))

\* The reducer named `f` applied to the matched nodes: the replacement node.
\* (Every reducer consumes all the nodes it is given.)
reducer_call(f, nodes) ==
    LET build(fp) ==
            CASE f = "choice" -> Choice(fp.span, fp.new_nodes)
              [] f = "option" -> Optional(fp.span, fp.new_nodes)
              [] f = "repeat" -> Repetition(fp.span, fp.new_nodes,
                                            one_needed_of(nodes[Len(nodes)].op))
              [] f = "list" -> Group(fp.span, fp.new_nodes)
    IN IF f = "rule" THEN rule_reducer(nodes) ELSE build(filter_parsed(nodes))

\* debug_assert!(!new_nodes.is_empty()) of filter_parsed fails for these nodes.
assert_fails(f, nodes) ==
    f # "rule" /\ \A i \in 1..Len(nodes) : nodes[i].kind = "UnparsedOperator"

\* The first pattern of the table that matches, 0 when none does.
first_match(s) ==
    LET first(hits) == IF hits = {} THEN 0 ELSE CHOOSE p \in hits : \A q \in hits : p <= q
    IN first({p \in 1..Len(PATTERNS) : match_rule(s, decode_rule_regex(PATTERNS[p])) # 0})

\* A mutant of reduce_once: the replacement is pushed and the matched nodes
\* stay.
reduce_once_keeps_nodes(s, p, debug) ==
    LET replace(nodes) ==
            IF debug /\ assert_fails(PATTERNS[p].reducer, nodes)
            THEN [s EXCEPT !.panicked = TRUE]
            ELSE push_node(s, reducer_call(PATTERNS[p].reducer, nodes))
    IN CHOOSE replaced \in
           {replace(nodes) :
              nodes \in {SubSeq(s.token_stack,
                                match_rule(s, decode_rule_regex(PATTERNS[p])),
                                Len(s.token_stack))}} : TRUE

\* One reduction: the first matching pattern's reducer replaces the matched tail.
reduce_once(s, p, debug) ==
    LET replace(nodes) ==
            IF debug /\ assert_fails(PATTERNS[p].reducer, nodes)
            THEN [s EXCEPT !.panicked = TRUE]
            ELSE push_node(drop_many(s, Len(nodes)),
                           reducer_call(PATTERNS[p].reducer, nodes))
    IN CHOOSE replaced \in
           {replace(nodes) :
              nodes \in {SubSeq(s.token_stack,
                                match_rule(s, decode_rule_regex(PATTERNS[p])),
                                Len(s.token_stack))}} : TRUE

RECURSIVE reduce_until_shift_needed(_, _)
\* Scan the table in order, apply the first match, rescan; stop when no
\* pattern matches (or a reducer panicked).
reduce_until_shift_needed(s, debug) ==
    LET step(p) == IF p = 0 THEN s
                   ELSE reduce_until_shift_needed(reduce_once(s, p, debug), debug)
    IN IF s.panicked THEN s ELSE step(first_match(s))

peek_node(s) == s.token_stack[Len(s.token_stack)]

into_parse_stack(s) == s.token_stack

----------------------------------------------------------------------------
(* Lexer *)

\* The characters \w matches, among those the model's texts are made of.
WordChars == {"A", "B", "C", "D", "E", "F", "G", "r", "u", "l", "e", "x", "_", "1"}

\* The one-character tokens (#[token(..)] of TokenPayload); "=" and "/" too.
SingleCharTokens ==
    [x \in {"=", ";", "|", "/", "?", "*", "+", "(", ")", "[", "]", "{", "}"} |->
        CASE x = "=" -> "Equals" [] x = ";" -> "Termination"
          [] x \in {"|", "/"} -> "Alternation" [] x = "?" -> "Optional"
          [] x = "*" -> "Kleene" [] x = "+" -> "Repeat"
          [] x = "(" -> "OpeningGroup" [] x = ")" -> "ClosingGroup"
          [] x = "[" -> "OpeningSquare" [] x = "]" -> "ClosingSquare"
          [] x = "{" -> "OpeningBrace" [] x = "}" -> "ClosingBrace"]

RECURSIVE run_end(_, _, _)
\* The position after the longest run of characters of `cs` starting at i.
run_end(text, i, cs) ==
    IF i <= Len(text) /\ text[i] \in cs THEN run_end(text, i + 1, cs) ELSE i

RECURSIVE string_end(_, _, _)
\* (?:[^q\\]|\\.)*q from position i: the position after the closing quote,
\* 0 when the string is not closed.
string_end(text, i, q) ==
    IF i > Len(text) THEN 0
    ELSE IF text[i] = q THEN i + 1
    ELSE IF text[i] = "\\"
         THEN IF i + 1 <= Len(text) /\ text[i + 1] # "\n"
              THEN string_end(text, i + 2, q) ELSE 0
    ELSE string_end(text, i + 1, q)

RECURSIVE not_char_end(_, _, _)
\* The position of the first q at or after i, 0 when there is none.
not_char_end(text, i, q) ==
    IF i > Len(text) THEN 0
    ELSE IF text[i] = q THEN i
    ELSE not_char_end(text, i + 1, q)

\* The lexeme at position i: its kind ("Skip", "Newline", "Error" or a
\* TokenPayload variant), the position after it, and its payload text.
lexeme(text, i) ==
    LET c == text[i]
        at(k) == IF k <= Len(text) THEN text[k] ELSE ""
        L(kind, next, str) == [kind |-> kind, next |-> next, str |-> str]
    IN CASE c = "\r" /\ at(i + 1) = "\n" -> L("Newline", i + 2, <<>>)
         [] c = "\r" /\ at(i + 1) # "\n" -> L("Newline", i + 1, <<>>)
         [] c = "\n" -> L("Newline", i + 1, <<>>)
         [] c \in {" ", "\t", ","} -> L("Skip", i + 1, <<>>)
         [] c = "/" ->
              IF at(i + 1) = "/" /\ at(i + 2) = " "
              THEN L("Skip", run_end(text, i + 3, {text[k] : k \in 1..Len(text)} \ {"\n", "\r"}), <<>>)
              ELSE L("Alternation", i + 1, <<>>)
         [] c \in WordChars ->
              LET e == run_end(text, i, WordChars)
              IN L("Identifier", e, SubSeq(text, i, e - 1))
         [] c \in {"'", "\""} ->
              LET e == string_end(text, i + 1, c)
              IN IF e = 0 THEN L("Error", i, <<>>)
                 ELSE L("String", e, SubSeq(text, i + 1, e - 2))
         [] c = "#" ->
              LET q == at(i + 1)
                  e == IF q \in {"'", "\""} THEN not_char_end(text, i + 2, q) ELSE 0
              IN IF e > i + 2 THEN L("Regex", e + 1, SubSeq(text, i + 2, e - 1))
                 ELSE L("Error", i, <<>>)
         [] c = ":" ->
              IF at(i + 1) = ":" /\ at(i + 2) = "=" THEN L("Equals", i + 3, <<>>)
              ELSE L("Error", i, <<>>)
         [] c \in DOMAIN SingleCharTokens /\ c # "/" -> L(SingleCharTokens[c], i + 1, <<>>)
         [] OTHER -> L("Error", i, <<>>)

\* The number of "\n" among text[i..j-1] (line_counter).
newlines_in(text, i, j) == Cardinality({k \in i..(j - 1) : text[k] = "\n"})

RECURSIVE lex_from(_, _, _, _, _)
\* tokenize's loop from position i, with lexer.extras = (line_count,
\* last_newline_offset) and the tokens collected so far.
lex_from(text, i, line_count, last_newline_offset, output) ==
    IF i > Len(text) THEN [ok |-> TRUE, tokens |-> output, offset |-> 0]
    ELSE LET start == i - 1
             scan(lx) ==
              LET end == lx.next - 1 IN
              CASE lx.kind = "Error" ->
                    [ok |-> FALSE, tokens |-> <<>>, offset |-> start, input |-> text]
              [] lx.kind = "Skip" ->
                    lex_from(text, lx.next, line_count, last_newline_offset, output)
              [] lx.kind = "Newline" ->
                    lex_from(text, lx.next, line_count + newlines_in(text, i, lx.next),
                             end, output)
              [] OTHER ->
                    lex_from(text, lx.next, line_count, last_newline_offset,
                        Append(output,
                            Token(lx.kind, lx.str,
                                  Span(start, end,
                                       <<1 + line_count, start - last_newline_offset>>,
                                       <<1 + line_count, end - last_newline_offset>>))))
         IN scan(lexeme(text, i))

\* A mutant of tokenize: the LexError carries the offset after the position
\* that failed.
tokenize_offset_after(text) ==
    LET move(r) == IF r.ok THEN r ELSE [r EXCEPT !.offset = @ + 1]
    IN move(lex_from(text, 1, 0, 0, <<>>))

tokenize(text) == lex_from(text, 1, 0, 0, <<>>)

----------------------------------------------------------------------------
(* Display *)

RECURSIVE Display(_)
RECURSIVE write_slice(_, _)

\* write_slice: "(" then every child as "(child)", `sep` between, then ")".
write_slice(slice, sep) ==
    <<"(">> \o concat([ind \in 1..Len(slice) |->
                          (IF ind > 1 THEN <<sep>> ELSE <<>>)
                          \o <<"(">> \o Display(slice[ind]) \o <<")">>])
            \o <<")">>

\* impl Display for Expr
Display(e) ==
    CASE e.kind = "Nonterminal" -> e.str
      [] e.kind = "Literal" -> <<"\"">> \o e.str \o <<"\"">>
      [] e.kind = "Repetition" ->
            IF e.one_needed
            THEN <<"{">> \o write_slice(e.body, " ") \o <<"}">>
            ELSE <<"(">> \o write_slice(e.body, " ") \o <<")", "*">>
      [] e.kind = "Optional" -> <<"[">> \o write_slice(e.body, " ") \o <<"]">>
      [] e.kind = "Regex" -> <<"#", "'">> \o e.str \o <<"'">>
      [] e.kind = "Group" -> write_slice(e.body, " ")
      [] e.kind = "Choice" -> write_slice(e.body, "|")
      [] e.kind = "UnparsedOperator" -> <<OperatorRepr[e.op]>>
      [] e.kind = "Rule" ->
            e.str \o <<" ", "=">>
                  \o concat([i \in 1..Len(e.body) |-> Display(e.body[i])])
                  \o <<";">>

----------------------------------------------------------------------------
(* Rule, and the driver parse_rules_from_tokens *)

Rule(name, body) == [name |-> name, body |-> body]

\* What a call returns.  tag is "Running" while the driver loop runs, then
\* "Ok", "EmptyInput", "LexError", "ParseError" or "Panic".
Res(tag, rules, offset, reason, parse_stack) ==
    [tag |-> tag, rules |-> rules, offset |-> offset, reason |-> reason,
     parse_stack |-> parse_stack]

Running == Res("Running", <<>>, 0, "", <<>>)
EmptyInput == Res("EmptyInput", <<>>, 0, "", <<>>)
Panic == Res("Panic", <<>>, 0, "", <<>>)

\* The driver's locals.
DriverState(stack_, outputs_, eore, n_, result_) ==
    [stack |-> stack_, outputs |-> outputs_, end_of_rule_expected |-> eore,
     n |-> n_, result |-> result_]

\* The driver before its loop: the first token is pushed.
driver_start(first_token) ==
    DriverState(push_token(LrStack_new, first_token), <<>>, <<>>, 0, Running)

\* One pass of the driver's for loop; `next` is <<>> when the input has no
\* token left, <<t>> otherwise.
loop_body(st, next, debug) ==
    LET emit(simple) == Append(st.outputs, Rule(simple.str, simple.body))
        eore == IF next # <<>> /\ next[1].kind = "Termination"
                THEN <<st.n + 1>> ELSE st.end_of_rule_expected
        shift(s) == IF next # <<>> THEN push_token(s, next[1]) ELSE s
        after_reduce(reduced) ==
            IF reduced.panicked
            THEN [st EXCEPT !.stack = reduced, !.result = Panic]
            ELSE IF reduced.token_stack # <<>> /\ peek_node(reduced).kind = "Rule"
            THEN IF HasEmptyBody(peek_node(reduced))
                 THEN [st EXCEPT !.stack = pop_node(reduced), !.result = Panic]
                 ELSE DriverState(shift(pop_node(reduced)),
                                  emit(simplify_node(peek_node(reduced))),
                                  eore, st.n + 1, Running)
            ELSE IF st.end_of_rule_expected = <<st.n>>
            THEN [st EXCEPT !.stack = reduced,
                            !.result = Res("ParseError", <<>>,
                                           peek_node(reduced).span.start,
                                           "TerminatorNotEndingRule",
                                           into_parse_stack(reduced))]
            ELSE DriverState(shift(reduced), st.outputs, eore, st.n + 1, Running)
    IN after_reduce(reduce_until_shift_needed(st.stack, debug))

\* A mutant of the return after the loop: the error carries the rules emitted
\* so far.
driver_finish_keeps_outputs(st, len) ==
    IF st.result # Running THEN st.result
    ELSE IF st.stack.token_stack = <<>>
    THEN Res("Ok", st.outputs, 0, "", <<>>)
    ELSE Res("ParseError", st.outputs, len, "ExhaustedInput", into_parse_stack(st.stack))

\* After the loop: Ok(outputs) when the stack is empty, else ExhaustedInput.
driver_finish(st, len) ==
    IF st.result # Running THEN st.result
    ELSE IF st.stack.token_stack = <<>>
    THEN Res("Ok", st.outputs, 0, "", <<>>)
    ELSE Res("ParseError", <<>>, len, "ExhaustedInput", into_parse_stack(st.stack))

RECURSIVE run_loop(_, _, _)
\* The for loop over 0..num_tokens, with `rest` the tokens still in the input.
run_loop(st, rest, debug) ==
    IF st.result # Running THEN st
    ELSE IF rest = <<>> THEN loop_body(st, <<>>, debug)
    ELSE run_loop(loop_body(st, <<Head(rest)>>, debug), Tail(rest), debug)

\* A mutant of parse_rules_from_tokens: no first token is no error.
parse_rules_from_tokens_without_first(len, input_tokens, debug) ==
    IF input_tokens = <<>> THEN Res("Ok", <<>>, 0, "", <<>>)
    ELSE driver_finish(run_loop(driver_start(Head(input_tokens)), Tail(input_tokens), debug),
                       len)

parse_rules_from_tokens(len, input_tokens, debug) ==
    IF input_tokens = <<>> THEN EmptyInput
    ELSE driver_finish(run_loop(driver_start(Head(input_tokens)), Tail(input_tokens), debug),
                       len)

\* Rule::new: the first rule of the input.
Rule_new(input, debug) ==
    LET lexed == tokenize(input)
        parsed == parse_rules_from_tokens(Len(input), lexed.tokens, debug)
    IN IF ~lexed.ok THEN Res("LexError", <<>>, lexed.offset, "", <<>>)
       ELSE IF parsed.tag # "Ok" THEN parsed
       ELSE IF parsed.rules = <<>> THEN EmptyInput
       ELSE [parsed EXCEPT !.rules = <<parsed.rules[1]>>]

----------------------------------------------------------------------------
(* Grammar *)

RECURSIVE nonterminals_from_depth_first(_, _)
\* A mutant of Rule::nonterminals' loop: a node's children go to the front of
\* the queue.
nonterminals_from_depth_first(queue, nonterm_names) ==
    IF queue = <<>> THEN nonterm_names
    ELSE LET node == Head(queue)
         IN CASE node.kind \in {"Regex", "Literal", "UnparsedOperator"} ->
                    nonterminals_from_depth_first(Tail(queue), nonterm_names)
              [] node.kind = "Nonterminal" ->
                    nonterminals_from_depth_first(Tail(queue),
                                                  Append(nonterm_names, node.str))
              [] OTHER -> nonterminals_from_depth_first(node.body \o Tail(queue),
                                                        nonterm_names)

RECURSIVE nonterminals_from(_, _)
\* Rule::nonterminals' loop: `queue` is the VecDeque (pop_front takes its head,
\* extend puts a node's children at its back), `nonterm_names` the list so far.
nonterminals_from(queue, nonterm_names) ==
    IF queue = <<>> THEN nonterm_names
    ELSE LET node == Head(queue)
         IN CASE node.kind \in {"Regex", "Literal", "UnparsedOperator"} ->
                    nonterminals_from(Tail(queue), nonterm_names)
              [] node.kind = "Nonterminal" ->
                    nonterminals_from(Tail(queue), Append(nonterm_names, node.str))
              [] OTHER -> nonterminals_from(Tail(queue) \o node.body, nonterm_names)

nonterminals(rule) == nonterminals_from(rule.body, <<>>)

unwrap_choice_items(e) ==
    IF Len(e) = 1 /\ e[1].kind = "Choice" THEN e[1].body ELSE e

\* A mutant of merge_duplicate_rule: the new definition's alternatives come first.
merge_duplicate_rule_new_first(old_rule, new_rule) ==
    LET body == unwrap_choice_items(new_rule) \o unwrap_choice_items(old_rule)
    IN <<Choice(Span_union(body), body)>>

merge_duplicate_rule(old_rule, new_rule) ==
    LET old_body == unwrap_choice_items(old_rule)
        new_body == unwrap_choice_items(new_rule)
        body == old_body \o new_body
    IN <<Choice(Span_union(body), body)>>

RECURSIVE from_iter_loop(_, _)
\* Grammar::from_iter's loop: `rules` is the HashMap, a function from names.
from_iter_loop(rules, iter) ==
    IF iter = <<>> THEN rules
    ELSE LET new_rule == Head(iter)
         IN IF new_rule.name \in DOMAIN rules
            THEN LET old_rule == rules[new_rule.name]
                     combined_rule == Rule(old_rule.name,
                                           merge_duplicate_rule(old_rule.body, new_rule.body))
                 IN from_iter_loop([rules EXCEPT ![combined_rule.name] = combined_rule],
                                   Tail(iter))
            ELSE from_iter_loop((new_rule.name :> new_rule) @@ rules, Tail(iter))

from_iter(iter) == from_iter_loop(<<>>, iter)

\* Grammar::new: the result of the call and, when it is Ok, the rules map.
Grammar_new(text, debug) ==
    LET lexed == tokenize(text)
        parsed == parse_rules_from_tokens(Len(text), lexed.tokens, debug)
    IN IF ~lexed.ok THEN [result |-> Res("LexError", <<>>, lexed.offset, "", <<>>),
                          rules |-> <<>>]
       ELSE IF parsed.tag # "Ok" THEN [result |-> parsed, rules |-> <<>>]
       ELSE [result |-> parsed, rules |-> from_iter(parsed.rules)]

\* A mutant of first_dangling_reference: only the first rule visited is looked at.
first_dangling_from_first_rule_only(rules, values) ==
    IF values = <<>> THEN <<>>
    ELSE LET rule == rules[Head(values)]
             refers == nonterminals(rule)
             missing == {i \in 1..Len(refers) : refers[i] \notin DOMAIN rules}
         IN IF missing # {}
            THEN <<rule.name, refers[CHOOSE i \in missing : \A j \in missing : i <= j]>>
            ELSE <<>>

RECURSIVE first_dangling_from(_, _)
\* Grammar::first_dangling_reference, visiting the rules in the order `values`
\* (the order of HashMap::values); None is <<>>, Some((a, b)) is <<a, b>>.
first_dangling_from(rules, values) ==
    IF values = <<>> THEN <<>>
    ELSE LET rule == rules[Head(values)]
             refers == nonterminals(rule)
             missing == {i \in 1..Len(refers) : refers[i] \notin DOMAIN rules}
         IN IF missing # {}
            THEN <<rule.name, refers[CHOOSE i \in missing : \A j \in missing : i <= j]>>
            ELSE first_dangling_from(rules, Tail(values))

\* The orders HashMap::values can visit the keys of `rules` in.
ValueOrders(rules) ==
    {o \in [1..Cardinality(DOMAIN rules) -> DOMAIN rules] :
        \A i, j \in DOMAIN o : i # j => o[i] # o[j]}

----------------------------------------------------------------------------
(* The parser driver, one token at a time *)

\* The token texts the inputs are written with: an identifier, a literal and
\* the operators of every pattern of the table.
Words ==
    {<<"A">>, <<"\"", "x", "\"">>}
    \cup {<<c>> : c \in {"=", ";", "|", "?", "+", "(", ")", "[", "]"}}

\* The driver's locals, as the record the driver's operators work on.
locals == DriverState(stack, outputs, end_of_rule_expected, n, result)

\* The variables no parser action touches.
parser_rest == <<expr, simplified, reparsed, spans, unions, names, lexer_output, padded,
                 padded_output, report>>

\* Rule::new / Grammar::new on the empty text: no token, EmptyInput.
StartEmpty ==
    /\ pc = "start"
    /\ result' = parse_rules_from_tokens(0, tokenize(<<>>).tokens, debug_assertions)
    /\ pc' = "done"
    /\ UNCHANGED <<shifted, stack, outputs, end_of_rule_expected, n, debug_assertions,
                   grammar, dangling, source_text>>
    /\ UNCHANGED parser_rest

\* The text starts with the word w: its token is pushed before the loop.
Start(w) ==
    /\ pc = "start"
    /\ \E tokens \in {tokenize(w).tokens} : \E st \in {driver_start(tokens[1])} :
          /\ source_text' = w
          /\ shifted' = tokens
          /\ stack' = st.stack
          /\ outputs' = st.outputs
          /\ end_of_rule_expected' = st.end_of_rule_expected
          /\ n' = st.n
          /\ result' = st.result
    /\ pc' = "loop"
    /\ UNCHANGED <<debug_assertions, grammar, dangling>>
    /\ UNCHANGED parser_rest

\* One pass of the loop with the word w next in the text, after one space.
\* The pass takes the word's token unless it returns before it gets there.
Shift(w) ==
    /\ pc = "loop"
    /\ Len(shifted) < MaxTokens
    /\ \E text \in {source_text \o <<" ">> \o w} :
       \E tokens \in {tokenize(text).tokens} :
       \E st \in {loop_body(locals, <<tokens[Len(tokens)]>>, debug_assertions)} :
          /\ source_text' = text
          /\ shifted' = IF st.result = Running THEN tokens ELSE shifted
          /\ stack' = st.stack
          /\ outputs' = st.outputs
          /\ end_of_rule_expected' = st.end_of_rule_expected
          /\ n' = st.n
          /\ result' = st.result
          /\ pc' = IF st.result = Running THEN "loop" ELSE "done"
    /\ UNCHANGED <<debug_assertions, grammar, dangling>>
    /\ UNCHANGED parser_rest

\* The last pass of the loop, with no token left, and the return after it.
EndOfInput ==
    /\ pc = "loop"
    /\ \E st \in {loop_body(locals, <<>>, debug_assertions)} :
          /\ stack' = st.stack
          /\ outputs' = st.outputs
          /\ end_of_rule_expected' = st.end_of_rule_expected
          /\ n' = st.n
          /\ result' = driver_finish(st, Len(source_text))
    /\ pc' = "done"
    /\ UNCHANGED <<shifted, debug_assertions, grammar, dangling, source_text>>
    /\ UNCHANGED parser_rest

\* Grammar::new after a successful parse: the rules are collected.
FromIter ==
    /\ pc = "done"
    /\ result.tag = "Ok"
    /\ grammar' = from_iter(result.rules)
    /\ pc' = "grammar"
    /\ UNCHANGED <<shifted, stack, outputs, end_of_rule_expected, n, result,
                   debug_assertions, dangling, source_text>>
    /\ UNCHANGED parser_rest

\* Grammar::first_dangling_reference, in one of the orders of HashMap::values.
FirstDanglingReference ==
    /\ pc = "grammar"
    /\ \E values \in ValueOrders(grammar) :
          dangling' = first_dangling_from(grammar, values)
    /\ pc' = "queried"
    /\ UNCHANGED <<shifted, stack, outputs, end_of_rule_expected, n, result,
                   debug_assertions, grammar, source_text>>
    /\ UNCHANGED parser_rest

\* Rule::new applied to the Display text of the rule a successful parse gave.
Redisplay ==
    /\ pc = "done"
    /\ result.tag = "Ok"
    /\ reparsed' = Rule_new(Display(RuleNode(DUMMY_SPAN, result.rules[1].name,
                                             result.rules[1].body)),
                            debug_assertions)
    /\ pc' = "redisplayed"
    /\ UNCHANGED <<shifted, stack, outputs, end_of_rule_expected, n, result,
                   debug_assertions, grammar, dangling, source_text>>
    /\ UNCHANGED <<expr, simplified, spans, unions, names, lexer_output, padded,
                   padded_output, report>>

Init ==
    /\ pc = "start"
    /\ shifted = <<>>
    /\ stack = LrStack_new
    /\ outputs = <<>>
    /\ end_of_rule_expected = <<>>
    /\ n = 0
    /\ result = Running
    /\ debug_assertions \in BOOLEAN
    /\ expr = None
    /\ simplified = None
    /\ reparsed = None
    /\ grammar = <<>>
    /\ dangling = <<>>
    /\ source_text = <<>>
    /\ spans = <<>>
    /\ unions = <<>>
    /\ names = <<>>
    /\ lexer_output = <<>>
    /\ padded = <<>>
    /\ padded_output = <<>>
    /\ report = <<>>

Next ==
    \/ StartEmpty
    \/ \E w \in Words : Start(w)
    \/ \E w \in Words : Shift(w)
    \/ EndOfInput
    \/ FromIter
    \/ FirstDanglingReference
    \/ Redisplay

Spec == Init /\ [][Next]_vars

----------------------------------------------------------------------------
(* Grammar::new on whole texts *)

\* The rule names and the bodies the texts are written with.  C is never
\* defined, so a body that names it has a dangling reference.
RuleNames == {<<"A">>, <<"B">>}

Bodies ==
    { <<"A">>,
      <<"B", "|", "C">>,
      <<"(", "A", "|", "C", ")", " ", "B">>,
      <<"[", "B", "]", "+">> }

\* How many definitions the text holds.
NumDefs(text) == Cardinality({i \in 1..Len(text) : text[i] = ";"})

\* The variables of the driver's single steps, which Grammar::new runs whole.
driver_vars == <<shifted, stack, outputs, end_of_rule_expected, n>>

\* One more definition, on a line of its own, at the end of the text.
AppendDefinition(name, body) ==
    /\ pc = "text"
    /\ NumDefs(source_text) < MaxDefs
    /\ source_text' = source_text \o name \o <<" ", "=", " ">> \o body \o <<";", "\n">>
    /\ UNCHANGED <<pc, result, debug_assertions, grammar, dangling>>
    /\ UNCHANGED driver_vars
    /\ UNCHANGED parser_rest

\* Grammar::new on the text.
GrammarNew ==
    /\ pc = "text"
    /\ \E g \in {Grammar_new(source_text, debug_assertions)} :
          /\ result' = g.result
          /\ grammar' = g.rules
          /\ pc' = IF g.result.tag = "Ok" THEN "grammar" ELSE "done"
    /\ UNCHANGED <<debug_assertions, dangling, source_text>>
    /\ UNCHANGED driver_vars
    /\ UNCHANGED parser_rest

InitGrammar ==
    /\ pc = "text"
    /\ shifted = <<>>
    /\ stack = LrStack_new
    /\ outputs = <<>>
    /\ end_of_rule_expected = <<>>
    /\ n = 0
    /\ result = Running
    /\ debug_assertions \in BOOLEAN
    /\ expr = None
    /\ simplified = None
    /\ reparsed = None
    /\ grammar = <<>>
    /\ dangling = <<>>
    /\ source_text = <<>>
    /\ spans = <<>>
    /\ unions = <<>>
    /\ names = <<>>
    /\ lexer_output = <<>>
    /\ padded = <<>>
    /\ padded_output = <<>>
    /\ report = <<>>

NextGrammar ==
    \/ \E name \in RuleNames, body \in Bodies : AppendDefinition(name, body)
    \/ GrammarNew
    \/ FirstDanglingReference

SpecGrammar == InitGrammar /\ [][NextGrammar]_vars

----------------------------------------------------------------------------
(* simplify_node on trees, and the Display round trip of its results *)

\* The span of a one-character token at offset k of a one-line text.
LeafSpan(k) == Span(k, k + 1, <<1, k>>, <<1, k + 1>>)

Leaves == {Nonterminal(LeafSpan(0), <<"A">>), Literal(LeafSpan(2), <<"x">>)}

\* The trees that have e as a child: every container around e alone, and
\* containers around e and a sibling, on either side.
Wraps(e) ==
    {Optional(DUMMY_SPAN, <<e>>), Repetition(DUMMY_SPAN, <<e>>, FALSE),
     Repetition(DUMMY_SPAN, <<e>>, TRUE), Group(DUMMY_SPAN, <<e>>),
     Choice(DUMMY_SPAN, <<e, Literal(LeafSpan(2), <<"x">>)>>),
     Choice(DUMMY_SPAN, <<Nonterminal(LeafSpan(4), <<"B">>), e>>),
     Group(DUMMY_SPAN, <<e, Nonterminal(LeafSpan(4), <<"B">>)>>)}

RECURSIVE Depth(_)
\* The nesting depth of a tree: 0 for a leaf.
Depth(e) ==
    IF e.body = <<>> THEN 0
    ELSE 1 + Depth(e.body[CHOOSE i \in 1..Len(e.body) :
                              \A j \in 1..Len(e.body) : Depth(e.body[j]) <= Depth(e.body[i])])

simplify_rest == <<shifted, stack, outputs, end_of_rule_expected, n, result,
                   debug_assertions, grammar, dangling, source_text, spans, unions,
                   lexer_output, padded, padded_output, report>>

\* The tree grows by one container.
Wrap(e) ==
    /\ pc = "tree"
    /\ Depth(expr) < MaxWraps
    /\ e \in Wraps(expr)
    /\ expr' = e
    /\ UNCHANGED <<pc, simplified, reparsed, names>>
    /\ UNCHANGED simplify_rest

SimplifyNode ==
    /\ pc = "tree"
    /\ simplified' = simplify_node(expr)
    /\ pc' = "simplified"
    /\ UNCHANGED <<expr, reparsed, names>>
    /\ UNCHANGED simplify_rest

\* The body of the rule Rule::nonterminals is called on: the tree, then one
\* more reference at the top level.
NamedBody(e) == <<e, Nonterminal(LeafSpan(6), <<"C">>)>>

\* Rule::nonterminals on a rule with that body.
Nonterminals ==
    /\ pc = "tree"
    /\ names' = nonterminals(Rule(<<"r", "u", "l", "e">>, NamedBody(expr)))
    /\ pc' = "named"
    /\ UNCHANGED <<expr, simplified, reparsed>>
    /\ UNCHANGED simplify_rest

\* display_rule_roundtrip: the simplified tree is formatted, wrapped as
\* "rule = <text>;" and parsed by Rule::new.  (The property test is built
\* with debug assertions, which is the profile InitSimplify sets.)
DisplayRuleRoundtrip ==
    /\ pc = "simplified"
    /\ reparsed' = Rule_new(<<"r", "u", "l", "e", " ", "=", " ">>
                                \o Display(simplified) \o <<";">>,
                            debug_assertions)
    /\ pc' = "reparsed"
    /\ UNCHANGED <<expr, simplified, names>>
    /\ UNCHANGED simplify_rest

InitSimplify ==
    /\ pc = "tree"
    /\ shifted = <<>>
    /\ stack = LrStack_new
    /\ outputs = <<>>
    /\ end_of_rule_expected = <<>>
    /\ n = 0
    /\ result = Running
    /\ debug_assertions = TRUE
    /\ expr \in Leaves
    /\ simplified = None
    /\ reparsed = None
    /\ grammar = <<>>
    /\ dangling = <<>>
    /\ source_text = <<>>
    /\ spans = <<>>
    /\ unions = <<>>
    /\ names = <<>>
    /\ lexer_output = <<>>
    /\ padded = <<>>
    /\ padded_output = <<>>
    /\ report = <<>>

NextSimplify ==
    \/ \E e \in Wraps(expr) : Wrap(e)
    \/ SimplifyNode
    \/ DisplayRuleRoundtrip
    \/ Nonterminals

SpecSimplify == InitSimplify /\ [][NextSimplify]_vars

----------------------------------------------------------------------------
(* Span::union on spans *)

\* The spans tokenize can give a token: the token starts at offset s of its
\* text and ends at e; the line it is on is the first, or the second with the
\* newline just before the token.
SpanValues ==
    {Span(s, e, <<1, s>>, <<1, e>>) : s \in 0..MaxOffset, e \in 1..(MaxOffset + 1)}
    \cup {Span(s, e, <<2, 0>>, <<2, e - s>>) : s \in 1..MaxOffset, e \in 1..(MaxOffset + 1)}

\* A token is not empty: its span starts before it ends.
TokenSpans == {s \in SpanValues : s.start < s.end}

\* Span::union over the spans ss, in their order.
union_of(ss) == Span_union([i \in 1..Len(ss) |-> Literal(ss[i], <<>>)])

SpanUnion ==
    /\ pc = "spans"
    /\ unions' = [s_t |-> union_of(<<spans[1], spans[2]>>),
                  t_s |-> union_of(<<spans[2], spans[1]>>),
                  st_u |-> union_of(<<union_of(<<spans[1], spans[2]>>), spans[3]>>),
                  s_tu |-> union_of(<<spans[1], union_of(<<spans[2], spans[3]>>)>>),
                  s_s |-> union_of(<<spans[1], spans[1]>>),
                  s_t_u |-> union_of(spans)]
    /\ pc' = "united"
    /\ UNCHANGED <<shifted, stack, outputs, end_of_rule_expected, n, result,
                   debug_assertions, expr, simplified, reparsed, grammar, dangling,
                   source_text, spans, names, lexer_output, padded, padded_output, report>>

InitSpan ==
    /\ pc = "spans"
    /\ shifted = <<>>
    /\ stack = LrStack_new
    /\ outputs = <<>>
    /\ end_of_rule_expected = <<>>
    /\ n = 0
    /\ result = Running
    /\ debug_assertions = FALSE
    /\ expr = None
    /\ simplified = None
    /\ reparsed = None
    /\ grammar = <<>>
    /\ dangling = <<>>
    /\ source_text = <<>>
    /\ spans \in [1..3 -> TokenSpans]
    /\ unions = <<>>
    /\ names = <<>>
    /\ lexer_output = <<>>
    /\ padded = <<>>
    /\ padded_output = <<>>
    /\ report = <<>>

NextSpan == SpanUnion

SpecSpan == InitSpan /\ [][NextSpan]_vars

----------------------------------------------------------------------------
(* tokenize, Rule::new and Grammar::new on texts written character by character *)

\* The characters of the texts: a word character, `=` and `;`, the skipped
\* ones, the slash of alternation and of comments, a quote, and a character
\* no token rule starts with.  Each is one byte, so positions are byte
\* offsets.
LexChars == {"A", "=", ";", " ", ",", "/", "\n", "'", "!"}

\* The texts put between two tokens: whitespace, a comma, and a comment up
\* to the end of its line, with and without a space after the slashes.
SkippedTexts ==
    { <<" ">>, <<",">>, <<"\n">>,
      <<"/", "/", " ", "A", "\n">>,
      <<"/", "/", "A", "\n">> }

\* The positions of a lexed text between two tokens that follow each other:
\* the end of the first and the start of the second.
TokenGaps(tokens) ==
    UNION {{tokens[i].span.end, tokens[i + 1].span.start} : i \in 1..(Len(tokens) - 1)}

\* The payloads of a token sequence, spans left out.
Payloads(tokens) == [i \in 1..Len(tokens) |-> [kind |-> tokens[i].kind, str |-> tokens[i].str]]

lex_rest == <<shifted, stack, outputs, end_of_rule_expected, n, debug_assertions,
              expr, simplified, reparsed, dangling, spans, unions, names>>

\* The text grows by one character.
AppendChar(c) ==
    /\ pc = "typing"
    /\ Len(source_text) < MaxChars
    /\ source_text' = Append(source_text, c)
    /\ UNCHANGED <<pc, result, grammar, lexer_output, padded, padded_output, report>>
    /\ UNCHANGED lex_rest

\* tokenize on the text.
Tokenize ==
    /\ pc = "typing"
    /\ lexer_output' = tokenize(source_text)
    /\ pc' = "lexed"
    /\ UNCHANGED <<source_text, result, grammar, padded, padded_output, report>>
    /\ UNCHANGED lex_rest

\* Rule::new on the text.
RuleNewOnText ==
    /\ pc = "lexed"
    /\ result' = Rule_new(source_text, debug_assertions)
    /\ pc' = "parsed"
    /\ UNCHANGED <<source_text, grammar, lexer_output, padded, padded_output, report>>
    /\ UNCHANGED lex_rest

\* Grammar::new on the text.
GrammarNewOnText ==
    /\ pc = "lexed"
    /\ \E g \in {Grammar_new(source_text, debug_assertions)} :
          /\ result' = g.result
          /\ grammar' = g.rules
    /\ pc' = "parsed"
    /\ UNCHANGED <<source_text, lexer_output, padded, padded_output, report>>
    /\ UNCHANGED lex_rest

\* The text with `skipped` put in at offset k, between two of its tokens,
\* and tokenize on that.
InsertSkipped(k, skipped) ==
    /\ pc = "lexed"
    /\ lexer_output.ok
    /\ k \in TokenGaps(lexer_output.tokens)
    /\ \E text \in {SubSeq(source_text, 1, k) \o skipped
                        \o SubSeq(source_text, k + 1, Len(source_text))} :
          /\ padded' = text
          /\ padded_output' = tokenize(text)
    /\ pc' = "padded"
    /\ UNCHANGED <<source_text, result, grammar, lexer_output, report>>
    /\ UNCHANGED lex_rest

InitLex ==
    /\ pc = "typing"
    /\ shifted = <<>>
    /\ stack = LrStack_new
    /\ outputs = <<>>
    /\ end_of_rule_expected = <<>>
    /\ n = 0
    /\ result = Running
    /\ debug_assertions \in BOOLEAN
    /\ expr = None
    /\ simplified = None
    /\ reparsed = None
    /\ grammar = <<>>
    /\ dangling = <<>>
    /\ source_text = <<>>
    /\ spans = <<>>
    /\ unions = <<>>
    /\ names = <<>>
    /\ lexer_output = <<>>
    /\ padded = <<>>
    /\ padded_output = <<>>
    /\ report = <<>>

NextLex ==
    \/ \E c \in LexChars : AppendChar(c)
    \/ Tokenize
    \/ RuleNewOnText
    \/ GrammarNewOnText
    \/ \E k \in 0..MaxChars, skipped \in SkippedTexts : InsertSkipped(k, skipped)

SpecLex == InitLex /\ [][NextLex]_vars

----------------------------------------------------------------------------
(* LrStack::push_node on nodes of every variant *)

\* One node of every Expr variant, and an UnparsedOperator of every Operator.
ShapeNodes ==
    LET leaf == Nonterminal(LeafSpan(0), <<"A">>)
    IN { Literal(LeafSpan(0), <<"x">>), leaf, Regex(LeafSpan(0), <<"x">>),
         Choice(LeafSpan(0), <<leaf, leaf>>), Optional(LeafSpan(0), <<leaf>>),
         Repetition(LeafSpan(0), <<leaf>>, FALSE), Group(LeafSpan(0), <<leaf>>),
         RuleNode(LeafSpan(0), <<"A">>, <<leaf>>) }
       \cup {UnparsedOperator(LeafSpan(0), op) : op \in DOMAIN OperatorRepr}

\* LrStack::push_node with the node e.
PushNode(e) ==
    /\ pc = "shape"
    /\ Len(stack.token_stack) < MaxStack
    /\ stack' = push_node(stack, e)
    /\ UNCHANGED <<pc, shifted, outputs, end_of_rule_expected, n, result,
                   debug_assertions, grammar, dangling, source_text>>
    /\ UNCHANGED parser_rest

InitShape ==
    /\ pc = "shape"
    /\ shifted = <<>>
    /\ stack = LrStack_new
    /\ outputs = <<>>
    /\ end_of_rule_expected = <<>>
    /\ n = 0
    /\ result = Running
    /\ debug_assertions = FALSE
    /\ expr = None
    /\ simplified = None
    /\ reparsed = None
    /\ grammar = <<>>
    /\ dangling = <<>>
    /\ source_text = <<>>
    /\ spans = <<>>
    /\ unions = <<>>
    /\ names = <<>>
    /\ lexer_output = <<>>
    /\ padded = <<>>
    /\ padded_output = <<>>
    /\ report = <<>>

NextShape == \E e \in ShapeNodes : PushNode(e)

SpecShape == InitShape /\ [][NextShape]_vars

----------------------------------------------------------------------------
(* Rule::new and simplify_node on the repetition notations *)

\* The operands the notations are applied to: a name, a literal, and a
\* group of two names.
RepeatOperands ==
    { <<"A">>, <<"'", "a", "'">>, <<"(", "A", " ", "B", ")">> }

\* The notations of the syntax table for Repetition.
RepeatNotations == {"x*", "x+", "{x}"}

\* The text of operand x in a notation.
Notated(x, notation) ==
    CASE notation = "x*" -> x \o <<"*">>
      [] notation = "x+" -> x \o <<"+">>
      [] notation = "{x}" -> <<"{">> \o x \o <<"}">>

repeat_rest == <<shifted, stack, outputs, end_of_rule_expected, debug_assertions,
                 reparsed, grammar, dangling, spans, unions, names, lexer_output,
                 padded, padded_output, report>>

\* The text is put in one of the notations; the result is the operand of
\* the next.
ApplyNotation(notation) ==
    /\ pc = "operand"
    /\ n < MaxRepeats
    /\ source_text' = Notated(source_text, notation)
    /\ n' = n + 1
    /\ UNCHANGED <<pc, result, expr, simplified>>
    /\ UNCHANGED repeat_rest

\* Rule::new on "r = <text>;" ; expr is the first node of the body of the
\* rule it returns.
ParseRepetition ==
    /\ pc = "operand"
    /\ \E r \in {Rule_new(<<"r", " ", "=", " ">> \o source_text \o <<";">>,
                          debug_assertions)} :
          /\ result' = r
          /\ expr' = IF r.tag = "Ok" THEN r.rules[1].body[1] ELSE None
    /\ pc' = "parsed"
    /\ UNCHANGED <<source_text, n, simplified>>
    /\ UNCHANGED repeat_rest

\* simplify_node on the node that was parsed.
SimplifyRepetition ==
    /\ pc = "parsed"
    /\ expr # None
    /\ simplified' = simplify_node(expr)
    /\ pc' = "simplified"
    /\ UNCHANGED <<source_text, n, result, expr>>
    /\ UNCHANGED repeat_rest

InitRepeat ==
    /\ pc = "operand"
    /\ shifted = <<>>
    /\ stack = LrStack_new
    /\ outputs = <<>>
    /\ end_of_rule_expected = <<>>
    /\ n = 0
    /\ result = Running
    /\ debug_assertions \in BOOLEAN
    /\ expr = None
    /\ simplified = None
    /\ reparsed = None
    /\ grammar = <<>>
    /\ dangling = <<>>
    /\ source_text \in RepeatOperands
    /\ spans = <<>>
    /\ unions = <<>>
    /\ names = <<>>
    /\ lexer_output = <<>>
    /\ padded = <<>>
    /\ padded_output = <<>>
    /\ report = <<>>

NextRepeat ==
    \/ \E notation \in RepeatNotations : ApplyNotation(notation)
    \/ ParseRepetition
    \/ SimplifyRepetition

SpecRepeat == InitRepeat /\ [][NextRepeat]_vars

----------------------------------------------------------------------------
(* Rule::new on the bracket notations with several children *)

\* The child expressions written between the brackets.
BracketChildren == { <<"A">>, <<"'", "a", "'">>, <<"B", "*">> }

bracket_rest == <<shifted, stack, outputs, end_of_rule_expected, debug_assertions,
                  simplified, grammar, dangling, spans, unions, names, lexer_output,
                  padded, padded_output, report>>

\* "r = <open><text><close>;"
Bracketed(open, text, close) ==
    <<"r", " ", "=", " ">> \o open \o text \o close \o <<";">>

\* The body of the first rule of a result; no nodes when there is no rule.
FirstBody(r) == IF r.tag = "Ok" THEN r.rules[1].body ELSE <<>>

\* One more child expression is written after the others.
AppendChild(x) ==
    /\ pc = "children"
    /\ n < MaxChildren
    /\ source_text' = IF n = 0 THEN x ELSE source_text \o <<" ">> \o x
    /\ n' = n + 1
    /\ UNCHANGED <<pc, result, expr, reparsed>>
    /\ UNCHANGED bracket_rest

\* Rule::new on "r = [x1 ... xn];" and on "r = (x1 ... xn)?;" ; expr is the
\* body of "r = x1 ... xn;" as a Group.
ParseOptionalBrackets ==
    /\ pc = "children"
    /\ n >= 1
    /\ result' = Rule_new(Bracketed(<<"[">>, source_text, <<"]">>), debug_assertions)
    /\ reparsed' = Rule_new(Bracketed(<<"(">>, source_text, <<")", "?">>),
                            debug_assertions)
    /\ expr' = Group(DUMMY_SPAN,
                     FirstBody(Rule_new(Bracketed(<<>>, source_text, <<>>),
                                        debug_assertions)))
    /\ pc' = "optional"
    /\ UNCHANGED <<source_text, n>>
    /\ UNCHANGED bracket_rest

\* Rule::new on "r = {x1 ... xn};" ; expr as above.
ParseRepetitionBraces ==
    /\ pc = "children"
    /\ n >= 1
    /\ result' = Rule_new(Bracketed(<<"{">>, source_text, <<"}">>), debug_assertions)
    /\ expr' = Group(DUMMY_SPAN,
                     FirstBody(Rule_new(Bracketed(<<>>, source_text, <<>>),
                                        debug_assertions)))
    /\ pc' = "repetition"
    /\ UNCHANGED <<source_text, n, reparsed>>
    /\ UNCHANGED bracket_rest

InitBracket ==
    /\ pc = "children"
    /\ shifted = <<>>
    /\ stack = LrStack_new
    /\ outputs = <<>>
    /\ end_of_rule_expected = <<>>
    /\ n = 0
    /\ result = Running
    /\ debug_assertions \in BOOLEAN
    /\ expr = None
    /\ simplified = None
    /\ reparsed = None
    /\ grammar = <<>>
    /\ dangling = <<>>
    /\ source_text = <<>>
    /\ spans = <<>>
    /\ unions = <<>>
    /\ names = <<>>
    /\ lexer_output = <<>>
    /\ padded = <<>>
    /\ padded_output = <<>>
    /\ report = <<>>

NextBracket ==
    \/ \E x \in BracketChildren : AppendChild(x)
    \/ ParseOptionalBrackets
    \/ ParseRepetitionBraces

SpecBracket == InitBracket /\ [][NextBracket]_vars

----------------------------------------------------------------------------
(* Rule::new on chains of alternations *)

\* The names of the alternatives, in the order they are written.
AlternativeNames == <<"A", "B", "C", "D", "E", "F", "G">>

choice_rest == <<shifted, stack, outputs, end_of_rule_expected, debug_assertions,
                 expr, simplified, reparsed, grammar, dangling, spans, unions,
                 lexer_output, padded, padded_output, report>>

\* The chain continued with `text`.
Alternated(chain, text) == IF chain = <<>> THEN text ELSE chain \o <<" ", "|", " ">> \o text

\* One more alternative: the next name.
AppendAlternative ==
    /\ pc = "chain"
    /\ n < MaxAlternatives
    /\ source_text' = Alternated(source_text, <<AlternativeNames[n + 1]>>)
    /\ n' = n + 1
    /\ UNCHANGED <<pc, result, names>>
    /\ UNCHANGED choice_rest

\* One more alternative: a parenthesized choice of the next two names.
AppendSubChoice ==
    /\ pc = "chain"
    /\ n + 1 < MaxAlternatives
    /\ source_text' = Alternated(source_text,
                                 <<"(", AlternativeNames[n + 1], " ", "|", " ",
                                   AlternativeNames[n + 2], ")">>)
    /\ n' = n + 2
    /\ UNCHANGED <<pc, result, names>>
    /\ UNCHANGED choice_rest

\* Rule::new on "r = <chain>;" ; names is the names of the nodes the body of
\* the rule's only node lists (no names when the body is not one node).
ParseChain ==
    /\ pc = "chain"
    /\ n >= 2
    /\ \E r \in {Rule_new(<<"r", " ", "=", " ">> \o source_text \o <<";">>,
                          debug_assertions)} :
          /\ result' = r
          /\ names' = IF Len(FirstBody(r)) = 1
                      THEN [i \in 1..Len(FirstBody(r)[1].body) |->
                               FirstBody(r)[1].body[i].str]
                      ELSE <<>>
    /\ pc' = "parsed"
    /\ UNCHANGED <<source_text, n>>
    /\ UNCHANGED choice_rest

InitChoice ==
    /\ pc = "chain"
    /\ shifted = <<>>
    /\ stack = LrStack_new
    /\ outputs = <<>>
    /\ end_of_rule_expected = <<>>
    /\ n = 0
    /\ result = Running
    /\ debug_assertions \in BOOLEAN
    /\ expr = None
    /\ simplified = None
    /\ reparsed = None
    /\ grammar = <<>>
    /\ dangling = <<>>
    /\ source_text = <<>>
    /\ spans = <<>>
    /\ unions = <<>>
    /\ names = <<>>
    /\ lexer_output = <<>>
    /\ padded = <<>>
    /\ padded_output = <<>>
    /\ report = <<>>

NextChoice ==
    \/ AppendAlternative
    \/ AppendSubChoice
    \/ ParseChain

SpecChoice == InitChoice /\ [][NextChoice]_vars

----------------------------------------------------------------------------
(* LrStack under any sequence of its operations *)

\* The tokens handed to push_token: two leaves, and the operators of the
\* choice, repeat, list and rule patterns.
StackTokens ==
    {Token("Identifier", <<"A">>, LeafSpan(0)), Token("Regex", <<"x">>, LeafSpan(0))}
    \cup {Token(k, <<>>, LeafSpan(0)) :
            k \in {"Alternation", "Equals", "Termination", "Kleene",
                   "OpeningGroup", "ClosingGroup"}}

\* The nodes handed to push_node directly: a compound node.
StackNodes == {Group(LeafSpan(0), <<Nonterminal(LeafSpan(0), <<"A">>)>>)}

stack_rest == <<shifted, outputs, end_of_rule_expected, result, debug_assertions,
                grammar, dangling, source_text>>

\* LrStack::push_token
PushToken(t) ==
    /\ pc = "stack"
    /\ Len(stack.token_stack) < MaxDepth
    /\ stack' = push_token(stack, t)
    /\ UNCHANGED <<pc, n>>
    /\ UNCHANGED stack_rest
    /\ UNCHANGED parser_rest

\* LrStack::push_node
PushCompound(e) ==
    /\ pc = "stack"
    /\ Len(stack.token_stack) < MaxDepth
    /\ stack' = push_node(stack, e)
    /\ UNCHANGED <<pc, n>>
    /\ UNCHANGED stack_rest
    /\ UNCHANGED parser_rest

\* LrStack::pop_node; on the empty stack both pops return None.
PopNode ==
    /\ pc = "stack"
    /\ stack' = pop_node(stack)
    /\ UNCHANGED <<pc, n>>
    /\ UNCHANGED stack_rest
    /\ UNCHANGED parser_rest

\* LrStack::drop_many(k)
DropMany(k) ==
    /\ pc = "stack"
    /\ stack' = drop_many(stack, k)
    /\ UNCHANGED <<pc, n>>
    /\ UNCHANGED stack_rest
    /\ UNCHANGED parser_rest

\* One reduction: the reducer of the first pattern that matches replaces the
\* matched nodes; n counts the reductions.  A reducer that panics ends the
\* run.
Reduce ==
    /\ pc = "stack"
    /\ n < MaxReductions
    /\ first_match(stack) # 0
    /\ n' = n + 1
    /\ stack' = reduce_once(stack, first_match(stack), debug_assertions)
    /\ pc' = IF stack'.panicked THEN "panicked" ELSE "stack"
    /\ UNCHANGED stack_rest
    /\ UNCHANGED parser_rest

InitStack ==
    /\ pc = "stack"
    /\ shifted = <<>>
    /\ stack = LrStack_new
    /\ outputs = <<>>
    /\ end_of_rule_expected = <<>>
    /\ n = 0
    /\ result = Running
    /\ debug_assertions \in BOOLEAN
    /\ expr = None
    /\ simplified = None
    /\ reparsed = None
    /\ grammar = <<>>
    /\ dangling = <<>>
    /\ source_text = <<>>
    /\ spans = <<>>
    /\ unions = <<>>
    /\ names = <<>>
    /\ lexer_output = <<>>
    /\ padded = <<>>
    /\ padded_output = <<>>
    /\ report = <<>>

NextStack ==
    \/ \E t \in StackTokens : PushToken(t)
    \/ \E e \in StackNodes : PushCompound(e)
    \/ PopNode
    \/ \E k \in 0..MaxDepth : DropMany(k)
    \/ Reduce

SpecStack == InitStack /\ [][NextStack]_vars

----------------------------------------------------------------------------
(* LrStack::shiftreduce, one iteration of its loop at a time *)

\* The words of the texts shiftreduce is run on.
ShiftWords == {<<c>> : c \in {"A", "=", ";", "|", "?", "*", "(", ")"}}

\* lookahead_pass for pattern p: with the next token of the input pushed, the
\* pattern still matches; false when the input has no token left.
lookahead_pass(s, p, input) ==
    IF input # <<>>
    THEN match_rule(push_token(s, Head(input)), decode_rule_regex(PATTERNS[p])) # 0
    ELSE FALSE

\* The for loop over the table: the first pattern that matches and whose
\* lookahead_pass is false, 0 when there is none (shift stays true).
first_reduction(s, input) ==
    LET first(hits) == IF hits = {} THEN 0 ELSE CHOOSE p \in hits : \A q \in hits : p <= q
    IN first({p \in 1..Len(PATTERNS) :
                /\ match_rule(s, decode_rule_regex(PATTERNS[p])) # 0
                /\ ~lookahead_pass(s, p, input)})

\* The tokens of the input that are not shifted yet.
remaining_input ==
    SubSeq(lexer_output.tokens, Len(shifted) + 1, Len(lexer_output.tokens))

shiftreduce_rest == <<end_of_rule_expected, debug_assertions, expr, simplified,
                      reparsed, grammar, dangling, spans, unions, names, padded,
                      padded_output, report>>

\* The text grows by one word.
WriteWord(w) ==
    /\ pc = "input"
    /\ n < MaxInput
    /\ source_text' = IF n = 0 THEN w ELSE source_text \o <<" ">> \o w
    /\ n' = n + 1
    /\ UNCHANGED <<pc, shifted, stack, outputs, result, lexer_output>>
    /\ UNCHANGED shiftreduce_rest

\* shiftreduce is called on the tokens of the text, with a new stack.
CallShiftReduce ==
    /\ pc = "input"
    /\ lexer_output' = tokenize(source_text)
    /\ n' = 0
    /\ pc' = "loop"
    /\ UNCHANGED <<shifted, stack, outputs, result, source_text>>
    /\ UNCHANGED shiftreduce_rest

\* An iteration that reduces: n counts the reductions since the last shift.
ReduceStep ==
    /\ pc = "loop"
    /\ \E p \in {first_reduction(stack, remaining_input)} :
          /\ p # 0
          /\ stack' = reduce_once(stack, p, debug_assertions)
    /\ n' = n + 1
    /\ pc' = IF stack'.panicked THEN "panicked" ELSE "loop"
    /\ UNCHANGED <<shifted, outputs, result, source_text, lexer_output>>
    /\ UNCHANGED shiftreduce_rest

\* An iteration that shifts: no reduction was made and the input has a token.
ShiftStep ==
    /\ pc = "loop"
    /\ first_reduction(stack, remaining_input) = 0
    /\ remaining_input # <<>>
    /\ stack' = push_token(stack, Head(remaining_input))
    /\ shifted' = Append(shifted, Head(remaining_input))
    /\ n' = 0
    /\ UNCHANGED <<pc, outputs, result, source_text, lexer_output>>
    /\ UNCHANGED shiftreduce_rest

\* The break: no reduction was made and the input has no token left.
Break ==
    /\ pc = "loop"
    /\ first_reduction(stack, remaining_input) = 0
    /\ remaining_input = <<>>
    /\ pc' = "done"
    /\ UNCHANGED <<shifted, stack, outputs, n, result, source_text, lexer_output>>
    /\ UNCHANGED shiftreduce_rest

\* parse_rules_from_tokens on the tokens of the text: the driver's locals
\* when it returns, n the passes of its loop that ran to their end.
ParseRulesFromTokens ==
    /\ pc = "input"
    /\ n >= 1
    /\ \E lexed \in {tokenize(source_text)} :
       \E st \in {run_loop(driver_start(Head(lexed.tokens)), Tail(lexed.tokens),
                           debug_assertions)} :
          /\ lexer_output' = lexed
          /\ shifted' = lexed.tokens
          /\ stack' = st.stack
          /\ outputs' = st.outputs
          /\ n' = st.n
          /\ result' = driver_finish(st, Len(source_text))
    /\ pc' = "parsed"
    /\ UNCHANGED source_text
    /\ UNCHANGED shiftreduce_rest

InitShiftReduce ==
    /\ pc = "input"
    /\ shifted = <<>>
    /\ stack = LrStack_new
    /\ outputs = <<>>
    /\ end_of_rule_expected = <<>>
    /\ n = 0
    /\ result = Running
    /\ debug_assertions \in BOOLEAN
    /\ expr = None
    /\ simplified = None
    /\ reparsed = None
    /\ grammar = <<>>
    /\ dangling = <<>>
    /\ source_text = <<>>
    /\ spans = <<>>
    /\ unions = <<>>
    /\ names = <<>>
    /\ lexer_output = <<>>
    /\ padded = <<>>
    /\ padded_output = <<>>
    /\ report = <<>>

NextShiftReduce ==
    \/ \E w \in ShiftWords : WriteWord(w)
    \/ CallShiftReduce
    \/ ReduceStep
    \/ ShiftStep
    \/ Break
    \/ ParseRulesFromTokens

SpecShiftReduce == InitShiftReduce /\ [][NextShiftReduce]_vars

\* The loop is not left waiting: an iteration that can run does run.
SpecShiftReduceFair == SpecShiftReduce /\ WF_vars(ReduceStep \/ ShiftStep \/ Break)

----------------------------------------------------------------------------
(* Display of EbnfError: the labels of the report *)

\* a - b on usize: a panic when the build checks overflow (it does exactly
\* when debug assertions are on), the wrapped value otherwise.
usize_sub(a, b, overflow_checks) ==
    IF a < b /\ overflow_checks THEN [panicked |-> TRUE, value |-> 0]
    ELSE [panicked |-> FALSE, value |-> (a - b) % 2^MaxUsizeBits]

\* A label of the report: its message, what the message names, its range.
Label(message, found, start, end) ==
    [message |-> message, found |-> found, start |-> start, end |-> end]

\* What fmt produced: the labels in the order attached and the parse stack
\* of the note, or a panic.
Report(labels, note) == [panicked |-> FALSE, labels |-> labels, note |-> note]
ReportPanic == [panicked |-> TRUE, labels |-> <<>>, note |-> <<>>]

\* The label of each operator left on the stack other than = and ;.
operator_labels(nodes) ==
    LET message(op) ==
            CASE op \in {"OpenedGroup", "OpenedSquare"} -> "Possible unclosed bracket"
              [] op \in {"Kleene", "Optional", "Repeat"} -> "Could not apply to preceding term"
              [] OTHER -> "Operator not understood"
        labelled == SelectSeq(nodes, LAMBDA e : /\ e.kind = "UnparsedOperator"
                                                /\ e.op \notin {"Equals", "Terminator"})
    IN [i \in 1..Len(labelled) |->
           Label(message(labelled[i].op), "", labelled[i].span.start, labelled[i].span.end)]

\* check_missing_terminator: with a ; pushed after the nodes the stack
\* reduces to a rule.  `missing` is the answer, `panicked` a reducer's panic.
check_missing_terminator(nodes, debug) ==
    LET codes == [i \in 1..Len(nodes) |-> node_pattern_code(nodes[i])]
        pushed == push_token([LrStack_new EXCEPT !.token_stack = nodes,
                                                 !.token_pattern = codes],
                             Token("Termination", <<>>, Span_union(nodes)))
        reduced == reduce_until_shift_needed(pushed, debug)
    IN [panicked |-> reduced.panicked,
        missing |-> ~reduced.panicked /\ reduced.token_stack # <<>>
                       /\ peek_node(reduced).kind = "Rule"]

\* attach_stack_to_report: the note shows the stack, most recent node first.
attach_stack_to_report(labels, nodes) ==
    Report(labels, [i \in 1..Len(nodes) |-> nodes[Len(nodes) + 1 - i]])

\* handle_parse_error.  Indices are the code's, from 0.
handle_parse_error(offset, reason, nodes, debug) ==
    LET labels == operator_labels(nodes)
        exhausted(check) ==
            IF check.panicked THEN ReportPanic
            ELSE attach_stack_to_report(
                     Append(labels,
                            Label(IF check.missing THEN "Missing semicolon here"
                                  ELSE "Unexpected end of input at index", "",
                                  offset, offset)),
                     nodes)
        positions == {i \in 1..Len(nodes) :
                         nodes[i].kind = "UnparsedOperator" /\ nodes[i].op = "Equals"}
        ending == Label("Rule ending here did not parse successfully", "",
                        offset, offset + 1)
        before(index) ==
            IF index.panicked THEN ReportPanic
            ELSE IF index.value < Len(nodes)
                    /\ nodes[index.value + 1].kind # "Nonterminal"
            THEN attach_stack_to_report(
                     labels \o <<Label("Expected identifier, found",
                                       nodes[index.value + 1].kind,
                                       nodes[index.value + 1].span.start,
                                       nodes[index.value + 1].span.end),
                                 ending>>,
                     nodes)
            ELSE attach_stack_to_report(Append(labels, ending), nodes)
    IN IF reason = "ExhaustedInput"
       THEN exhausted(check_missing_terminator(nodes, debug))
       ELSE IF positions = {}
       THEN attach_stack_to_report(Append(labels, ending), nodes)
       ELSE before(usize_sub((CHOOSE i \in positions : \A j \in positions : i <= j) - 1,
                             1, debug))

\* The quote characters fmt looks for at the offset of a LexError.
QuoteChars == {"'", "\""}

\* Display::fmt of an EbnfError.
EbnfError_fmt(error, input, debug) ==
    CASE error.tag = "EmptyInput" -> Report(<<>>, <<>>)
      [] error.tag = "LexError" ->
            IF error.offset >= Len(input) THEN ReportPanic
            ELSE Report(<<Label("This was not recognised as the start of a valid token",
                                IF input[error.offset + 1] \in QuoteChars
                                THEN "Is this the beginning of an unclosed string?" ELSE "",
                                error.offset, error.offset + 1)>>,
                        <<>>)
      [] error.tag = "ParseError" ->
            handle_parse_error(error.offset, error.reason, error.parse_stack, debug)

\* The words of the texts whose errors are displayed.
RenderWords ==
    {<<"A">>, <<"\"", "x", "\"">>} \cup {<<c>> : c \in {"=", ";", "|", "*", "("}}

\* format!("{e}") on the error the parse returned.
DisplayError ==
    /\ pc = "parsed"
    /\ result.tag \in {"EmptyInput", "LexError", "ParseError"}
    /\ report' = EbnfError_fmt(result, source_text, debug_assertions)
    /\ pc' = "displayed"
    /\ UNCHANGED <<shifted, stack, outputs, end_of_rule_expected, n, result,
                   debug_assertions, expr, simplified, reparsed, grammar, dangling,
                   source_text, spans, unions, names, lexer_output, padded,
                   padded_output>>

NextRender ==
    \/ \E w \in RenderWords : WriteWord(w)
    \/ ParseRulesFromTokens
    \/ DisplayError

SpecRender == InitShiftReduce /\ [][NextRender]_vars

----------------------------------------------------------------------------
(* The properties *)

RECURSIVE HasUnparsedOperator(_)
HasUnparsedOperator(e) ==
    \/ e.kind = "UnparsedOperator"
    \/ \E i \in 1..Len(e.body) : HasUnparsedOperator(e.body[i])

\* The body of a rule with every span forgotten.
StripBody(body) == [i \in 1..Len(body) |-> StripSpans(body[i])]

\* C1: when Rule::new or Grammar::new succeeds, no UnparsedOperator node
\* occurs at any depth of any returned rule body.
C1_NoUnparsedOperatorInOutput ==
    result.tag = "Ok" =>
        \A i \in 1..Len(result.rules) :
            \A j \in 1..Len(result.rules[i].body) :
                ~HasUnparsedOperator(result.rules[i].body[j])

\* C2: Rule::new on the Display text of a rule Rule::new returned succeeds
\* and returns an equal rule: the same name, the same body ignoring spans.
C2_RuleDisplayRoundTrip ==
    pc = "redisplayed" =>
        /\ reparsed.tag = "Ok"
        /\ reparsed.rules[1].name = result.rules[1].name
        /\ StripBody(reparsed.rules[1].body) = StripBody(result.rules[1].body)

\* C3: a simplified tree, formatted with Display, wrapped as "rule = <text>;"
\* and parsed by Rule::new, comes back: the last body element, simplified,
\* equals the tree, ignoring spans.
C3_ExprDisplayRoundTrip ==
    pc = "reparsed" =>
        /\ reparsed.tag = "Ok"
        /\ LET body == reparsed.rules[1].body
           IN StripSpans(simplify_node(body[Len(body)])) = StripSpans(simplified)

RECURSIVE ChoiceInChoice(_)
\* Some Choice of the tree has a Choice as a direct child.
ChoiceInChoice(e) ==
    \/ /\ e.kind = "Choice"
       /\ \E i \in 1..Len(e.body) : e.body[i].kind = "Choice"
    \/ \E i \in 1..Len(e.body) : ChoiceInChoice(e.body[i])

RECURSIVE LoneGroup(_)
\* Some Optional, Repetition or Group of the tree has a body of exactly one Group.
LoneGroup(e) ==
    \/ /\ e.kind \in {"Optional", "Repetition", "Group"}
       /\ Len(e.body) = 1
       /\ e.body[1].kind = "Group"
    \/ \E i \in 1..Len(e.body) : LoneGroup(e.body[i])

\* C4: after simplify_node no Choice has a Choice as a direct child, and no
\* Optional, Repetition or Group has a body of exactly one Group.
C4_SimplifiedIsCanonical ==
    pc \in {"simplified", "reparsed"} =>
        ~ChoiceInChoice(simplified) /\ ~LoneGroup(simplified)

\* C4's case: a tree of full depth, a container around a Choice that has a
\* Choice as a direct child, has been simplified; or one whose only child is
\* a Group around a Group.
C4_Witness ==
    /\ pc = "simplified"
    /\ Depth(expr) = MaxWraps
    /\ expr.kind \in {"Optional", "Repetition", "Group"}
    /\ Len(expr.body) = 1
    /\ \/ expr.body[1].kind = "Choice" /\ ChoiceInChoice(expr)
       \/ expr.body[1].kind = "Group" /\ LoneGroup(expr.body[1])

\* C5: simplifying the result of simplify_node again changes nothing.
C5_SimplifyIdempotent ==
    pc = "simplified" => simplify_node(simplified) = simplified

\* C5's case: simplify_node changed the shape of the tree, through a Group
\* that held a Choice inside a Choice.
C5_Witness ==
    /\ pc = "simplified"
    /\ StripSpans(simplified) # StripSpans(expr)
    /\ expr.kind = "Choice"
    /\ expr.body[1].kind = "Group"
    /\ expr.body[1].body[1].kind = "Choice"

\* An opening bracket at i and its closing bracket at j with nothing but
\* operators (or nothing at all) between them.
EmptyBrackets(tokens) ==
    \E i, j \in 1..Len(tokens) :
        /\ i < j
        /\ <<tokens[i].kind, tokens[j].kind>> \in
               {<<"OpeningGroup", "ClosingGroup">>, <<"OpeningSquare", "ClosingSquare">>,
                <<"OpeningBrace", "ClosingBrace">>}
        /\ \A k \in (i + 1)..(j - 1) : tokens[k].kind \notin {"Identifier", "String", "Regex"}

SpanIsUnionOfChildren(e) ==
    /\ \A i \in 1..Len(e.body) :
          e.span.start <= e.body[i].span.start /\ e.body[i].span.end <= e.span.end
    /\ \E i \in 1..Len(e.body) :
          /\ e.body[i].span.start = e.span.start
          /\ e.body[i].span.line_offset_start = e.span.line_offset_start
    /\ \E i \in 1..Len(e.body) :
          /\ e.body[i].span.end = e.span.end
          /\ e.body[i].span.line_offset_end = e.span.line_offset_end

RECURSIVE SpansAreUnions(_)
SpansAreUnions(e) ==
    /\ e.kind \in CompoundKinds => SpanIsUnionOfChildren(e)
    /\ \A i \in 1..Len(e.body) : SpansAreUnions(e.body[i])

\* C7: in every tree Grammar::new returns, parsed or merged, each Choice,
\* Optional, Repetition and Group has the union of its direct children's
\* spans as its span.
C7_SpanIsUnionOfChildren ==
    pc \in {"grammar", "queried"} =>
        /\ \A i \in 1..Len(result.rules) :
              \A j \in 1..Len(result.rules[i].body) : SpansAreUnions(result.rules[i].body[j])
        /\ \A name \in DOMAIN grammar :
              \A j \in 1..Len(grammar[name].body) : SpansAreUnions(grammar[name].body[j])

\* C7's case: a grammar with a Repetition around an Optional, whose brackets
\* and operator are outside the children, and a merged Choice over two lines.
C7_Witness ==
    /\ pc = "grammar"
    /\ \E i \in 1..Len(result.rules) :
          /\ result.rules[i].body[1].kind = "Repetition"
          /\ result.rules[i].body[1].body[1].kind = "Optional"
    /\ \E name \in DOMAIN grammar :
          /\ grammar[name].body[1].kind = "Choice"
          /\ grammar[name].body[1].span.line_offset_start[1]
                 # grammar[name].body[1].span.line_offset_end[1]

\* C8: Span::union is commutative, associative and idempotent, line and
\* column fields included.
C8_UnionAlgebra ==
    pc = "united" =>
        /\ unions.s_t = unions.t_s
        /\ unions.st_u = unions.s_tu
        /\ unions.s_s = spans[1]

\* The parsed definitions of `name`, in source order.
DefinitionsOf(name) ==
    SelectSeq(result.rules, LAMBDA r : r.name = name)

\* What one definition contributes to the merged Choice.
Alternatives(body) ==
    IF Len(body) = 1 /\ body[1].kind = "Choice" THEN body[1].body ELSE body

\* C9: a name defined k >= 2 times has one entry, whose body is exactly one
\* Choice of the definitions' alternatives in source order.
C9_DuplicatesMerge ==
    pc \in {"grammar", "queried"} =>
        \A name \in RuleNames :
            LET defs == DefinitionsOf(name)
            IN Len(defs) >= 2 =>
                  /\ name \in DOMAIN grammar
                  /\ grammar[name].name = name
                  /\ Len(grammar[name].body) = 1
                  /\ grammar[name].body[1].kind = "Choice"
                  /\ grammar[name].body[1].body
                        = concat([i \in 1..Len(defs) |-> Alternatives(defs[i].body)])

\* C9's case: three definitions of one name, one whose body is a single
\* Choice and one whose body has several elements.
C9_Witness ==
    /\ pc = "grammar"
    /\ \E name \in RuleNames :
          LET defs == DefinitionsOf(name)
          IN /\ Len(defs) = MaxDefs
             /\ \E i \in 1..Len(defs) :
                   Len(defs[i].body) = 1 /\ defs[i].body[1].kind = "Choice"
             /\ \E i \in 1..Len(defs) : Len(defs[i].body) > 1
             /\ defs[1].body # defs[2].body

RECURSIVE ReferencedNames(_)
\* The nonterminal names that occur in the nodes, at any depth.
ReferencedNames(nodes) ==
    UNION {IF nodes[i].kind = "Nonterminal" THEN {nodes[i].str}
           ELSE ReferencedNames(nodes[i].body) : i \in 1..Len(nodes)}

\* C10: first_dangling_reference gives None exactly when every referenced
\* name is a key; Some((r, n)) has r a key, n among r's nonterminals and n
\* not a key.
C10_FirstDanglingReference ==
    pc = "queried" =>
        /\ dangling = <<>> <=>
              \A name \in DOMAIN grammar :
                  ReferencedNames(grammar[name].body) \subseteq DOMAIN grammar
        /\ dangling # <<>> =>
              /\ dangling[1] \in DOMAIN grammar
              /\ \E i \in 1..Len(nonterminals(grammar[dangling[1]])) :
                    nonterminals(grammar[dangling[1]])[i] = dangling[2]
              /\ dangling[2] \notin DOMAIN grammar

\* C10's case: a grammar of two rules, one of them with no dangling
\* reference, the other with one.
C10_Witness ==
    /\ pc = "queried"
    /\ Cardinality(DOMAIN grammar) = 2
    /\ dangling # <<>>
    /\ \E name \in DOMAIN grammar :
          ReferencedNames(grammar[name].body) \subseteq DOMAIN grammar

----------------------------------------------------------------------------

RECURSIVE NamesAtDepth(_, _)
\* The names of the Nonterminal nodes at nesting depth d below `nodes`, from
\* left to right (depth 0 is `nodes` themselves).
NamesAtDepth(nodes, d) ==
    IF d = 0
    THEN concat([i \in 1..Len(nodes) |->
                    IF nodes[i].kind = "Nonterminal" THEN <<nodes[i].str>> ELSE <<>>])
    ELSE NamesAtDepth(concat([i \in 1..Len(nodes) |-> nodes[i].body]), d - 1)

\* C11: rule.nonterminals() is the list of the names of the Nonterminal nodes
\* of the body, one entry per occurrence, level by level: the names at depth d
\* come before those at depth d + 1, and the names of one depth are in their
\* left-to-right order.
C11_NonterminalsBreadthFirst ==
    pc = "named" =>
        names = concat([d \in 1..(Depth(expr) + 1) |->
                           NamesAtDepth(NamedBody(expr), d - 1)])

\* A rule of full depth was queried: the top-level reference comes first
\* although it is written last, the leaf's name comes last, and a name that
\* occurs twice is listed twice.
C11_Witness ==
    /\ pc = "named"
    /\ Depth(expr) = MaxWraps
    /\ Len(names) >= 4
    /\ names[1] = <<"C">>
    /\ names[Len(names)] = <<"A">>
    /\ \E i, j \in 1..Len(names) : i < j /\ names[i] = names[j]

\* C12: for every `;` token, at whatever position of the token sequence: the
\* pass of the driver that follows its shift reduces the stack and then either
\* pops a Rule from the top and emits it, or returns ParseError with reason
\* TerminatorNotEndingRule, carrying the whole stack that is left and the
\* start of its top node as offset, without taking another token.
C12_TerminatorEndsRuleOrFails ==
    [][ (pc = "loop" /\ shifted[Len(shifted)].kind = "Termination") =>
           \/ /\ peek_node(reduce_until_shift_needed(stack, debug_assertions)).kind = "Rule"
              /\ Len(outputs') = Len(outputs) + 1
           \/ /\ result'.tag = "ParseError"
              /\ result'.reason = "TerminatorNotEndingRule"
              /\ result'.parse_stack = into_parse_stack(stack')
              /\ result'.offset = peek_node(stack').span.start
              /\ shifted' = shifted ]_vars

\* The call is over and has returned: it took at least one token and did not
\* panic.
Returned == pc = "done" /\ shifted # <<>> /\ result.tag # "Panic"

RuleHead(tokens) ==
    LET eqs == {i \in 1..Len(tokens) : tokens[i].kind = "Equals"}
    IN IF eqs = {} THEN <<>>
       ELSE SubSeq(tokens, 1, (CHOOSE i \in eqs : \A j \in eqs : i <= j) - 1)

\* A pass of the driver emits a rule only from a stack that holds a
\* Nonterminal directly before an `=`, everything from that Nonterminal on
\* leaves the stack, and the rule has the Nonterminal's name.
RuleComesFromNonterminalHead ==
    Len(outputs') = Len(outputs) + 1 =>
        \E k \in 1..(Len(stack.token_stack) - 1) :
            /\ stack.token_stack[k].kind = "Nonterminal"
            /\ stack.token_stack[k + 1].op = "Equals"
            /\ outputs'[Len(outputs')].name = stack.token_stack[k].str
            /\ SubSeq(stack'.token_stack, 1, k - 1) = SubSeq(stack.token_stack, 1, k - 1)
            /\ Len(stack'.token_stack) \in {k - 1, k}

\* C14: a Rule is produced only when the node directly before `=` on the
\* stack is a single Nonterminal, and the rule's name is that Nonterminal's
\* name; and every input whose head (what stands before the first `=`) is
\* anything but one identifier - a literal, an operator, a compound
\* expression - makes Rule::new return an error.
C14_RuleHeadIsNonterminal ==
    /\ [][RuleComesFromNonterminalHead]_vars
    /\ [](( /\ pc = "done"
            /\ RuleHead(shifted) # <<>>
            /\ ~(Len(RuleHead(shifted)) = 1 /\ shifted[1].kind = "Identifier") )
          => result.tag \in {"ParseError", "LexError", "EmptyInput"})

\* The closing bracket token of each opening one.
Closer == [OpeningGroup |-> "ClosingGroup", OpeningSquare |-> "ClosingSquare",
           OpeningBrace |-> "ClosingBrace"]

RECURSIVE Unbalanced(_, _)
\* The brackets among `tokens` do not pair up, `open` being the openers that
\* wait for their closer: a closer meets no opener or one of another kind, or
\* an opener is left at the end.
Unbalanced(tokens, open) ==
    IF tokens = <<>> THEN open # <<>>
    ELSE LET t == Head(tokens)
         IN CASE t.kind \in DOMAIN Closer ->
                    Unbalanced(Tail(tokens), <<t.kind>> \o open)
              [] t.kind \in {Closer[o] : o \in DOMAIN Closer} ->
                    \/ open = <<>>
                    \/ Closer[Head(open)] # t.kind
                    \/ Unbalanced(Tail(tokens), Tail(open))
              [] OTHER -> Unbalanced(Tail(tokens), open)

BracketOperators ==
    {"OpenedGroup", "ClosedGroup", "OpenedSquare", "ClosedSquare", "OpenedBrace",
     "ClosedBrace"}

\* C15: Rule::new never returns a Rule for a text whose brackets are
\* unbalanced or mismatched: it fails with a ParseError, and an unmatched
\* bracket is on the surviving stack as an UnparsedOperator.
C15_UnbalancedBracketsFail ==
    (pc = "done" /\ Unbalanced(tokenize(source_text).tokens, <<>>)) =>
        /\ result.tag = "ParseError"
        /\ \E i \in 1..Len(result.parse_stack) :
              /\ result.parse_stack[i].kind = "UnparsedOperator"
              /\ result.parse_stack[i].op \in BracketOperators

\* C16: Rule::new and Grammar::new return EmptyInput exactly for the inputs
\* that lex to no token at all (the empty text, and texts of whitespace,
\* commas and comments only).
C16_EmptyInputIffNoToken ==
    pc = "parsed" =>
        (result.tag = "EmptyInput" <=> (lexer_output.ok /\ lexer_output.tokens = <<>>))

\* A text of full length that is a comment and nothing else was parsed, and
\* the result is EmptyInput.
C16_Witness ==
    /\ pc = "parsed"
    /\ Len(source_text) = MaxChars
    /\ SubSeq(source_text, 1, 3) = <<"/", "/", " ">>
    /\ result.tag = "EmptyInput"

\* C17: a LexError carries the input and the offset of the first position
\* where no token rule matches: the text before the offset lexes without
\* error, no rule starts with the character at the offset or it is the quote
\* of a string that is never closed, and so for an unclosed string the offset
\* is that of its opening quote.
C17_LexErrorOffset ==
    (pc = "lexed" /\ ~lexer_output.ok) =>
        LET o == lexer_output.offset IN
        /\ lexer_output.input = source_text
        /\ o \in 0..(Len(source_text) - 1)
        /\ tokenize(SubSeq(source_text, 1, o)).ok
        /\ \/ source_text[o + 1] = "!"
           \/ /\ source_text[o + 1] = "'"
              /\ \A j \in (o + 2)..Len(source_text) : source_text[j] # "'"

\* A text with a token and skipped text before a string that is not closed
\* was lexed: the offset is that of the quote.
C17_Witness ==
    /\ pc = "lexed"
    /\ ~lexer_output.ok
    /\ lexer_output.offset = 2
    /\ source_text = <<"A", " ", "'", "A">>

\* C18: whitespace, commas and line comments give no token and no error:
\* putting whitespace, a `,` or a comment that starts with `//` and runs to
\* the end of its line between two tokens of a text leaves the sequence of
\* token payloads as it was, whatever character follows the `//`.
C18_SkippedTextGivesNoToken ==
    pc = "padded" =>
        /\ padded_output.ok
        /\ Payloads(padded_output.tokens) = Payloads(lexer_output.tokens)

\* The characters [A-Za-z] matches.
Alphabetic ==
    {"A", "B", "C", "D", "E", "F", "G", "H", "I", "J", "K", "L", "M", "N", "O", "P", "Q",
     "R", "S", "T", "U", "V", "W", "X", "Y", "Z", "a", "b", "c", "d", "e", "f", "g", "h",
     "i", "j", "k", "l", "m", "n", "o", "p", "q", "r", "s", "t", "u", "v", "w", "x", "y",
     "z"}

\* C19: every non-operator variant has a letter of its own as shape code and
\* every operator has a punctuation code: on any stack, [A-Za-z] matches the
\* codes of exactly the nodes that are not operators, and two such nodes with
\* the same code are of the same variant.
C19_ShapeCodesPartition ==
    \A i, j \in 1..Len(stack.token_stack) :
        LET e == stack.token_stack[i]
            f == stack.token_stack[j]
        IN /\ (e.kind # "UnparsedOperator") <=> (stack.token_pattern[i] \in Alphabetic)
           /\ ( /\ e.kind # "UnparsedOperator"
                /\ f.kind # "UnparsedOperator"
                /\ stack.token_pattern[i] = stack.token_pattern[j] ) => e.kind = f.kind

\* The one_needed the notation that ends (or encloses) the text stands for.
NotationOneNeeded(text) == text[Len(text)] \in {"+", "}"}

\* C20: a text x*, x+ or {x} parses to a rule whose body is one Repetition,
\* with one_needed false for x* and true for x+ and {x}; and simplify_node
\* on that Repetition gives a Repetition with the same one_needed.
C20_RepetitionOneNeeded ==
    (pc \in {"parsed", "simplified"} /\ n >= 1) =>
        /\ result.tag = "Ok"
        /\ Len(result.rules[1].body) = 1
        /\ expr.kind = "Repetition"
        /\ expr.one_needed = NotationOneNeeded(source_text)
        /\ pc = "simplified" =>
              /\ simplified.kind = "Repetition"
              /\ simplified.one_needed = expr.one_needed

\* The body of a rule is the one node of `kind` whose children are the nodes
\* of `children`, spans aside.
BodyIsOne(body, kind, children) ==
    /\ Len(body) = 1
    /\ body[1].kind = kind
    /\ StripSpans(Group(DUMMY_SPAN, body[1].body)) = StripSpans(children)

\* C21: [x1 ... xn] parses to one Optional whose body is x1..xn, the tree
\* (x1 ... xn)? parses to, and {x1 ... xn} to one Repetition whose body is
\* x1..xn, for every n >= 1.
C21_BracketsTakeAnyNumberOfChildren ==
    /\ pc \in {"optional", "repetition"} => Len(expr.body) = n
    /\ pc = "optional" =>
          /\ result.tag = "Ok"
          /\ BodyIsOne(FirstBody(result), "Optional", expr)
          /\ reparsed.tag = "Ok"
          /\ StripSpans(Group(DUMMY_SPAN, FirstBody(reparsed)))
                = StripSpans(Group(DUMMY_SPAN, FirstBody(result)))
    /\ pc = "repetition" =>
          /\ result.tag = "Ok"
          /\ BodyIsOne(FirstBody(result), "Repetition", expr)

\* The chain has a parenthesized sub-choice.
HasSubChoice == \E i \in 1..Len(source_text) : source_text[i] = "("

\* C22: a chain of n alternatives, with or without parenthesized sub-choices,
\* parses to a rule whose body is one Choice that lists the n alternatives
\* once each, in the order they are written.
C22_ChainIsOneFlatChoice ==
    pc = "parsed" =>
        /\ result.tag = "Ok"
        /\ Len(FirstBody(result)) = 1
        /\ FirstBody(result)[1].kind = "Choice"
        /\ \A i \in 1..Len(FirstBody(result)[1].body) :
              FirstBody(result)[1].body[i].kind = "Nonterminal"
        /\ names = [i \in 1..n |-> <<AlternativeNames[i]>>]

\* C23: the shape has one character per node of the stack, and its i-th
\* character is the shape code of the i-th node.
C23_ShapeFollowsStack ==
    /\ Len(stack.token_pattern) = Len(stack.token_stack)
    /\ \A i \in 1..Len(stack.token_stack) :
          stack.token_pattern[i] = node_pattern_code(stack.token_stack[i])

\* C23's case: a stack of several nodes, with a node a reduction built
\* between nodes that were pushed before and after it.
C23_Witness ==
    /\ pc = "stack"
    /\ n >= 1
    /\ Len(stack.token_stack) = 3
    /\ stack.token_stack[2].kind = "Choice"
    /\ stack.token_pattern = <<"=", "C", "*">>

\* The reducers of the table in the order the scan tries them, as the claim
\* lists them: choice, bracket option, ?, *, +, brace repeat, group, rule.
TableOrder ==
    <<"choice", "option", "option", "repeat", "repeat", "repeat", "list", "rule">>

\* An iteration of the loop applies the first pattern of the table that
\* matches the tail of the shape: the matched tail becomes one node and the
\* nodes below it stay; it shifts or stops only when no pattern matches.
StepFollowsTable ==
    pc = "loop" =>
        LET p == first_match(stack)
            m == match_rule(stack, decode_rule_regex(PATTERNS[p]))
        IN IF p # 0
           THEN /\ stack' = reduce_once(stack, p, debug_assertions)
                /\ ~stack'.panicked =>
                      /\ Len(stack'.token_stack) = m
                      /\ SubSeq(stack'.token_stack, 1, m - 1)
                            = SubSeq(stack.token_stack, 1, m - 1)
           ELSE \/ pc' = "done" /\ stack' = stack
                \/ /\ remaining_input # <<>>
                   /\ stack' = push_token(stack, Head(remaining_input))

\* C24: every reduction step applies the first pattern in table order that
\* matches the tail of the shape and replaces exactly the matched nodes by
\* one node, and the loop goes on to shift or stops only when no pattern
\* matches; the table is in the order the claim gives.
C24_FirstMatchingPatternIsApplied ==
    /\ [][StepFollowsTable]_vars
    /\ [](TableOrder = [p \in 1..Len(PATTERNS) |-> PATTERNS[p].reducer])

\* C25: what the loop reduces next is the same whatever token comes next in
\* the input, and the same as with no token left.
C25_NoLookahead ==
    pc = "loop" =>
        \A t \in StackTokens :
            first_reduction(stack, <<t>>) = first_reduction(stack, <<>>)

\* A reduction (n counts the reductions since the last shift) replaces two
\* or more nodes by one: the stack gets shorter and is not empty, and the
\* reductions since the last shift plus the depth never grow, so there are
\* fewer of them than the depth the stack had at that shift.
ReductionShrinksStack ==
    (pc = "loop" /\ n' = n + 1 /\ ~stack'.panicked) =>
        /\ Len(stack'.token_stack) < Len(stack.token_stack)
        /\ Len(stack'.token_stack) >= 1
        /\ n' + Len(stack'.token_stack) <= n + Len(stack.token_stack)

\* parse_rules_from_tokens returned after its loop.
ReturnedAfterLoop ==
    /\ pc = "parsed"
    /\ \/ result.tag = "Ok"
       \/ result.tag = "ParseError" /\ result.reason = "ExhaustedInput"

\* C26: every reduction makes the stack shorter, so fewer reductions than
\* the depth of the stack come between two shifts; the loop of shiftreduce
\* comes to its end on every token sequence; and the driver runs one
\* reduce-to-fixpoint for each token and none after.
C26_ParsingTerminates ==
    /\ [][ReductionShrinksStack]_vars
    /\ (pc = "loop" ~> pc \in {"done", "panicked"})
    /\ [](pc = "loop" => n < Len(shifted) \/ n = 0)
    /\ [](ReturnedAfterLoop => n = Len(lexer_output.tokens))

\* C26's case: the loop ended after it shifted several tokens and reduced
\* them to one node.
C26_Witness ==
    /\ pc = "done"
    /\ Len(shifted) >= 4
    /\ Len(stack.token_stack) = 1
    /\ stack.token_stack[1].kind = "Group"

\* C27: in every rule of a Grammar that Grammar::new returns, merged from
\* several definitions or not, no Choice has a Choice as a direct child.
C27_GrammarChoicesAreFlat ==
    pc \in {"grammar", "queried"} =>
        \A name \in DOMAIN grammar :
            \A i \in 1..Len(grammar[name].body) :
                ~ChoiceInChoice(grammar[name].body[i])

RECURSIVE GroupInContainer(_)
\* Some Group, Optional or Repetition of the tree has a Group as a direct
\* child.
GroupInContainer(e) ==
    \/ /\ e.kind \in {"Group", "Optional", "Repetition"}
       /\ \E i \in 1..Len(e.body) : e.body[i].kind = "Group"
    \/ \E i \in 1..Len(e.body) : GroupInContainer(e.body[i])

\* C28: simplify_node inlines the children of every Group that is a direct
\* child of a Group, an Optional or a Repetition, alone or among siblings:
\* in its result no Group, Optional or Repetition has a Group as a direct
\* child.
C28_NoGroupInContainer ==
    pc = "simplified" => ~GroupInContainer(simplified)

\* The names a rule of the grammar refers to that are no key of the grammar,
\* as positions in the rule's nonterminals.
DanglingPositions(name) ==
    {i \in 1..Len(nonterminals(grammar[name])) :
        nonterminals(grammar[name])[i] \notin DOMAIN grammar}

\* The positions, in the parsed definitions, of the rules with a dangling
\* reference.
DanglingDefinitions ==
    {i \in 1..Len(result.rules) : DanglingPositions(result.rules[i].name) # {}}

\* C29: when rules have dangling references, first_dangling_reference gives
\* the pair of the earliest-defined such rule in source order and of the
\* first dangling name within that rule.
C29_DanglingFollowsSourceOrder ==
    pc = "queried" /\ dangling # <<>> =>
        LET first == CHOOSE i \in DanglingDefinitions :
                        \A j \in DanglingDefinitions : i <= j
            name == result.rules[first].name
            refers == nonterminals(grammar[name])
        IN dangling = <<name, refers[CHOOSE i \in DanglingPositions(name) :
                                        \A j \in DanglingPositions(name) : i <= j]>>

\* C30: displaying a ParseError never fails, whatever stack it carries; when
\* the reason is TerminatorNotEndingRule and = is the first node of the stack
\* the report has no "Expected identifier" label.
C30_DisplayNeverFails ==
    pc = "displayed" /\ result.tag = "ParseError" =>
        /\ ~report.panicked
        /\ /\ result.reason = "TerminatorNotEndingRule"
           /\ result.parse_stack[1].kind = "UnparsedOperator"
           /\ result.parse_stack[1].op = "Equals"
           => \A i \in 1..Len(report.labels) :
                  report.labels[i].message # "Expected identifier, found"

====
